---- MODULE Spec2Model ----
(***************************************************************************)
(* Session and token plane of the SSO backend.                             *)
(*                                                                         *)
(* The Redis keyspace, the JWT codec and the handlers of AuthService,      *)
(* TokenHelper, SessionService and SSOSessionService are modelled at the   *)
(* granularity of one Redis command (one await) per step.  A handler is a  *)
(* small program over a local record l (its coroutine frame); Step runs    *)
(* one command of it, Run runs it to completion.                           *)
(*                                                                         *)
(*   Spec      handlers run one at a time (Run), the clock ticks between   *)
(*             them.                                                       *)
(*   SpecConc  handlers of several in-flight requests interleave at every  *)
(*             await (Step).                                               *)
(*   SpecStore the public calls of SessionService alone, in any order,     *)
(*             each run to completion, no key expiring.                    *)
(*   SpecLoggedIn  Spec continued from a completed first login.           *)
(*   SpecAdmin, SpecIdentity, SpecRefresh, SpecRace, SpecSsoRace, SpecList *)
(*             narrower settings, each described where it is defined.      *)
(*                                                                         *)
(* Time is an integer clock `now`.  One tick stands for one unit of the    *)
(* wall clock as jose and Redis see it; lifetimes are scaled down so that  *)
(* expiry happens inside the explored window.                              *)
(***************************************************************************)
EXTENDS Integers, Sequences, FiniteSets, TLC

(***************************************************************************)
(* Bounds of the exploration.                                              *)
(***************************************************************************)
MaxTime == 2
MaxSso == 2
MaxOps == 3
MaxConcOps == 2
MaxAdminOps == 3
MaxIdOps == 3

(***************************************************************************)
(* Program constants (lifetimes scaled to ticks).                          *)
(***************************************************************************)
ACCESS_TOKEN_EXPIRE_MINUTES == 1
REFRESH_TOKEN_EXPIRE_DAYS == 2
MAX_ACTIVE_SESSIONS == 1
SESSION_TTL == REFRESH_TOKEN_EXPIRE_DAYS
SSO_TTL == 2

(***************************************************************************)
(* Value universes.                                                        *)
(***************************************************************************)
Nil == "nil"
NoRec == [nil |-> TRUE]
NoTok == NoRec

Users == {"u1"}
Apps == {"hris", "kiosk"}
SSO_PORTAL == "sso_portal"
ClientCodes == Apps \cup {SSO_PORTAL}
Devices == {"d1", "d2"}
DevKeys == Devices \cup {"None"}

\* f"{device_id}" inside a key: Python None is rendered as the text None
DevStr(d) == IF d = Nil THEN "None" ELSE d

SessionKeys == Users \X ClientCodes \X DevKeys
ClientKeys == Users \X ClientCodes

_session_key(u, c, d) == <<u, c, DevStr(d)>>
_client_sessions_key(u, c) == <<u, c>>

\* hashlib.sha256(token).hexdigest(): injective on the tokens of the model
_hash_token(tok) == <<"sha256", tok>>

SsoTokens == 1..MaxSso
SsoHashes == {_hash_token(n) : n \in SsoTokens}

(***************************************************************************)
(* Token codec (core/security/jwt.py).  A compact JWT is determined by its *)
(* claims: RS256 signing is deterministic and jose renders iat/exp as      *)
(* whole seconds, so two tokens with the same claims signed within the     *)
(* same clock unit are the same string.                                    *)
(***************************************************************************)
create_refresh_token(u, c, d, t) ==
    [type |-> "refresh", sub |-> u, client_id |-> c, device_id |-> d,
     iat |-> t, exp |-> t + REFRESH_TOKEN_EXPIRE_DAYS]

create_access_token(u, c, apps, t) ==
    [type |-> "access", sub |-> u, client_id |-> c, allowed_apps |-> apps,
     iat |-> t, exp |-> t + ACCESS_TOKEN_EXPIRE_MINUTES]

\* payload.get(k, default)
Claim(tok, k, default) == IF k \in DOMAIN tok THEN tok[k] ELSE default

\* variant: the type claim is not compared
verify_token_any_type(tok, token_type, t) ==
    /\ tok # NoTok
    /\ ~(tok.exp < t)

\* jose raises ExpiredSignatureError when exp < now; then the type claim
verify_token(tok, token_type, t) ==
    /\ tok # NoTok
    /\ ~(tok.exp < t)
    /\ tok.type = token_type

RefreshTokens(t) ==
    {create_refresh_token(u, c, d, i) :
        u \in Users, c \in Apps \cup {Nil}, d \in Devices \cup {Nil}, i \in 0..t}

AccessTokens(t) ==
    {create_access_token(u, c, A, i) :
        u \in Users, c \in ClientCodes \cup {Nil}, A \in SUBSET Apps, i \in 0..t}

(***************************************************************************)
(* Relational store (out of scope of the core, read by the handlers).      *)
(*   db.active[a]   applications.is_active                                 *)
(*   db.allowed[u]  user_applications                                      *)
(*   db.deleted[u]  users.deleted_at IS NOT NULL                           *)
(*   db.users       ids of the rows of users                               *)
(*   db.email[u]    users.email                                            *)
(*   db.status[u]   users.status                                           *)
(*   db.binding[k]  auth_providers row of (provider, provider_user_id), or *)
(*                  NoRec; last_used_at = -1 stands for NULL               *)
(***************************************************************************)
\* "e1" is the address of u1, "e2" is nobody's; "u2" is an id no row has
Emails == {"e1", "e2"}
Passwords == {"p1", "p2"}
GoogleIds == {"g1"}
UserIds == Users \cup {"u2"}
UserStatuses == {"active", "deleted"}
BindingKeys == ({"email"} \X Emails) \cup ({"google"} \X GoogleIds)

\* password_hash of a binding that has none
NoHash == <<>>

\* PasswordService: a bcrypt-class hash and its verification
hash_password(p) == <<"bcrypt", p>>

verify_password(p, h) == h = hash_password(p)

\* UserQueries.get_by_email: the row with that email and deleted_at NULL
get_by_email(d, e) ==
    IF \E u \in d.users \cap Users : d.email[u] = e /\ ~d.deleted[u]
    THEN CHOOSE u \in d.users \cap Users : d.email[u] = e /\ ~d.deleted[u]
    ELSE Nil

\* AuthProviderQueries.get_by_provider_user_id: the binding joined with a
\* user whose deleted_at is NULL
get_by_provider_user_id(d, provider, provider_user_id) ==
    LET b == d.binding[<<provider, provider_user_id>>]
    IN  IF b # NoRec /\ ~d.deleted[b.user_id] THEN b ELSE NoRec

\* AuthProviderCommands.update_last_used / create
update_last_used(d, provider, provider_user_id, t) ==
    [d EXCEPT !.binding[<<provider, provider_user_id>>].last_used_at = t]

create_auth_provider(d, u, provider, provider_user_id) ==
    [d EXCEPT !.binding[<<provider, provider_user_id>>] =
        [user_id |-> u, password_hash |-> NoHash, last_used_at |-> -1]]

\* UserCommands.update (status) and UserCommands.delete, after the
\* get_by_id of their use cases
update_user(d, u, status) ==
    IF d.deleted[u] THEN d ELSE [d EXCEPT !.status[u] = status]

delete_user(d, u) ==
    IF d.deleted[u] THEN d
    ELSE [d EXCEPT !.status[u] = "deleted", !.deleted[u] = TRUE]
single_session(c) == c = "kiosk"

\* admin plane: UserApplicationService.assign_applications_to_user syncs the
\* user's grants to the given list; ApplicationCommands.update sets is_active
assign_applications_to_user(d, u, ids) == [d EXCEPT !.allowed[u] = ids]

update_application(d, a, is_active) == [d EXCEPT !.active[a] = is_active]

(***************************************************************************)
(* Redis keyspace.                                                         *)
(*   redis.session[k]          JSON blob of session:{u}:{c}:{d}, or NoRec  *)
(*   redis.client_sessions[k]  set client_sessions:{u}:{c} with its expiry *)
(*   redis.user_sessions[u]    set user_sessions:{u} of "{c}:{d}"          *)
(*   redis.sso[u]              JSON blob of sso:{u}, or NoRec              *)
(*   redis.sso_token[h]        sso_token:{h} -> user id, or NoRec          *)
(* A key written at time t with TTL n carries exp = t + n and is gone from *)
(* the first tick with now >= exp.  A set key that has no TTL yet (SADD on *)
(* a missing key creates it persistent) carries exp = -1; a set with no    *)
(* member does not exist.                                                  *)
(***************************************************************************)
EmptyIdx == [mem |-> {}, exp |-> -1]

SAdd(idx, m) == [idx EXCEPT !.mem = idx.mem \cup {m}]

SRem(idx, m) ==
    IF idx.mem \ {m} = {} THEN EmptyIdx ELSE [idx EXCEPT !.mem = idx.mem \ {m}]

Expire(idx, e) == IF idx.mem = {} THEN idx ELSE [idx EXCEPT !.exp = e]

EmptyRedis ==
    [session         |-> [k \in SessionKeys |-> NoRec],
     client_sessions |-> [k \in ClientKeys |-> EmptyIdx],
     user_sessions   |-> [u \in Users |-> EmptyIdx],
     sso             |-> [u \in Users |-> NoRec],
     sso_token       |-> [h \in SsoHashes |-> NoRec]]

\* keys whose TTL has run out at time t are removed
Purge(r, t) ==
    [session         |-> [k \in SessionKeys |->
                            IF r.session[k] # NoRec /\ r.session[k].exp <= t
                            THEN NoRec ELSE r.session[k]],
     client_sessions |-> [k \in ClientKeys |->
                            IF r.client_sessions[k].exp >= 0 /\ r.client_sessions[k].exp <= t
                            THEN EmptyIdx ELSE r.client_sessions[k]],
     user_sessions   |-> [u \in Users |->
                            IF r.user_sessions[u].exp >= 0 /\ r.user_sessions[u].exp <= t
                            THEN EmptyIdx ELSE r.user_sessions[u]],
     sso             |-> [u \in Users |->
                            IF r.sso[u] # NoRec /\ r.sso[u].exp <= t
                            THEN NoRec ELSE r.sso[u]],
     sso_token       |-> [h \in SsoHashes |->
                            IF r.sso_token[h] # NoRec /\ r.sso_token[h].exp <= t
                            THEN NoRec ELSE r.sso_token[h]]]

(***************************************************************************)
(* Coroutine frames.                                                       *)
(***************************************************************************)
Frame(op, pc, ret, u, c, d, tok, sso_in, fresh) ==
    [op |-> op, pc |-> pc, ret |-> ret,
     user |-> u, client |-> c, device |-> d, tok |-> tok, sso_in |-> sso_in,
     fresh |-> fresh,
     single |-> FALSE, apps |-> {},
     rt |-> NoTok, at |-> NoTok, sso_tok |-> 0, device_out |-> Nil,
     cred |-> <<>>,
     ids |-> {}, found |-> {}, cur |-> Nil, curc |-> Nil,
     sess |-> NoRec, vuser |-> Nil, hash |-> <<>>, ttl |-> 0,
     ok |-> FALSE, err |-> Nil]

IdleFrame == Frame("none", "idle", <<>>, Nil, Nil, Nil, NoTok, 0, 0)

Out(l, r) == [l |-> l, r |-> r]

Goto(l, pc) == [l EXCEPT !.pc = pc]

Call(l, pc, cont) == [l EXCEPT !.pc = pc, !.ret = <<cont>> \o l.ret]

Ret(l) ==
    IF l.ret = <<>>
    THEN [l EXCEPT !.pc = "done", !.ok = TRUE]
    ELSE [l EXCEPT !.pc = Head(l.ret), !.ret = Tail(l.ret)]

Raise(l, e) == [l EXCEPT !.pc = "done", !.ret = <<>>, !.ok = FALSE, !.err = e]

(***************************************************************************)
(* SSOSessionService (services/sso_session_service.py).                    *)
(***************************************************************************)
SsoEntry(r, h) == IF h \in SsoHashes THEN r.sso_token[h] ELSE NoRec

\* variant: a user who already has an SSO session keeps it; the token
\* handed out is new but nothing is stored for it
create_sso_session_keep_existing(l, r, t) ==
    CASE l.pc = "sso_c_get" ->
            IF r.sso[l.user] # NoRec
            THEN Out(Ret([l EXCEPT !.sso_tok = l.fresh]), r)
            ELSE Out(Goto(l, "sso_c_setsso"), r)
      [] l.pc = "sso_c_setsso" ->
            Out([l EXCEPT !.pc = "sso_c_settok", !.sso_tok = l.fresh],
                [r EXCEPT !.sso[l.user] =
                    [user_id |-> l.user, token_hash |-> _hash_token(l.fresh),
                     last_activity |-> t, exp |-> t + SSO_TTL]])
      [] OTHER -> \* "sso_c_settok"
            Out(Ret(l),
                [r EXCEPT !.sso_token[_hash_token(l.sso_tok)] =
                    [user_id |-> l.user, exp |-> t + SSO_TTL]])

\* create_sso_session: get_sso_session_by_user, optional internal delete,
\* then SETEX sso:{u} and SETEX sso_token:{h}.  l.fresh is the uuid4 drawn
\* by _generate_sso_token.
create_sso_session(l, r, t) ==
    CASE l.pc = "sso_c_get" ->
            IF r.sso[l.user] # NoRec
            THEN Out(Call(l, "sso_d_get", "sso_c_setsso"), r)
            ELSE Out(Goto(l, "sso_c_setsso"), r)
      [] l.pc = "sso_c_setsso" ->
            Out([l EXCEPT !.pc = "sso_c_settok", !.sso_tok = l.fresh],
                [r EXCEPT !.sso[l.user] =
                    [user_id |-> l.user, token_hash |-> _hash_token(l.fresh),
                     last_activity |-> t, exp |-> t + SSO_TTL]])
      [] OTHER -> \* "sso_c_settok"
            Out(Ret(l),
                [r EXCEPT !.sso_token[_hash_token(l.sso_tok)] =
                    [user_id |-> l.user, exp |-> t + SSO_TTL]])

\* _delete_sso_session_internal: read the record, DEL the reverse key it
\* names, DEL sso:{u}
_delete_sso_session_internal(l, r) ==
    CASE l.pc = "sso_d_get" ->
            IF r.sso[l.user] # NoRec
            THEN Out([l EXCEPT !.pc = "sso_d_deltok",
                               !.hash = r.sso[l.user].token_hash], r)
            ELSE Out(Goto(l, "sso_d_delsso"), r)
      [] l.pc = "sso_d_deltok" ->
            Out(Goto(l, "sso_d_delsso"), [r EXCEPT !.sso_token[l.hash] = NoRec])
      [] OTHER -> \* "sso_d_delsso"
            Out(Ret(l), [r EXCEPT !.sso[l.user] = NoRec])

\* variant: a missing SSO session is reported as an error
delete_sso_session_strict(l, r) ==
    IF r.sso[l.user] = NoRec
    THEN Out(Raise(l, "InvalidSsoSession"), r)
    ELSE Out(Goto(l, "sso_d_get"), r)

\* delete_sso_session: nothing to do when sso:{u} is missing
delete_sso_session(l, r) ==
    IF r.sso[l.user] = NoRec
    THEN Out(Ret(l), r)
    ELSE Out(Goto(l, "sso_d_get"), r)

\* variant: a one-time token, the reverse key is dropped once it has been
\* used
validate_sso_token_one_time(l, r, t) ==
    CASE l.pc = "sso_v_gettok" ->
            IF SsoEntry(r, _hash_token(l.sso_in)) = NoRec
            THEN Out(Ret([l EXCEPT !.sess = NoRec]), r)
            ELSE Out([l EXCEPT !.pc = "sso_v_getsso",
                               !.vuser = SsoEntry(r, _hash_token(l.sso_in)).user_id], r)
      [] l.pc = "sso_v_getsso" ->
            IF r.sso[l.vuser] = NoRec
            THEN Out(Ret([l EXCEPT !.sess = NoRec]), r)
            ELSE IF r.sso[l.vuser].token_hash # _hash_token(l.sso_in)
            THEN Out(Ret([l EXCEPT !.sess = NoRec]), r)
            ELSE Out([l EXCEPT !.pc = "sso_v_ttl",
                               !.sess = [r.sso[l.vuser] EXCEPT !.last_activity = t]],
                     [r EXCEPT !.sso_token[_hash_token(l.sso_in)] = NoRec])
      [] l.pc = "sso_v_ttl" ->
            LET ttl == IF r.sso[l.vuser] = NoRec THEN -2 ELSE r.sso[l.vuser].exp - t
            IN  IF ttl > 0
                THEN Out([l EXCEPT !.pc = "sso_v_setex", !.ttl = ttl], r)
                ELSE Out(Ret(l), r)
      [] OTHER -> \* "sso_v_setex"
            Out(Ret(l), [r EXCEPT !.sso[l.vuser] = [l.sess EXCEPT !.exp = t + l.ttl]])

\* validate_sso_token and _update_last_activity; the result is l.sess
\* (NoRec for None)
\* variant: the write-back of last_activity restarts the full lifetime
validate_sso_token_full_ttl(l, r, t) ==
    CASE l.pc = "sso_v_gettok" ->
            IF SsoEntry(r, _hash_token(l.sso_in)) = NoRec
            THEN Out(Ret([l EXCEPT !.sess = NoRec]), r)
            ELSE Out([l EXCEPT !.pc = "sso_v_getsso",
                               !.vuser = SsoEntry(r, _hash_token(l.sso_in)).user_id], r)
      [] l.pc = "sso_v_getsso" ->
            IF r.sso[l.vuser] = NoRec
            THEN Out(Ret([l EXCEPT !.sess = NoRec]), r)
            ELSE IF r.sso[l.vuser].token_hash # _hash_token(l.sso_in)
            THEN Out(Ret([l EXCEPT !.sess = NoRec]), r)
            ELSE Out([l EXCEPT !.pc = "sso_v_ttl",
                               !.sess = [r.sso[l.vuser] EXCEPT !.last_activity = t]], r)
      [] l.pc = "sso_v_ttl" ->
            Out([l EXCEPT !.pc = "sso_v_setex", !.ttl = SSO_TTL], r)
      [] OTHER -> \* "sso_v_setex"
            Out(Ret(l), [r EXCEPT !.sso[l.vuser] = [l.sess EXCEPT !.exp = t + l.ttl]])

validate_sso_token(l, r, t) ==
    CASE l.pc = "sso_v_gettok" ->
            IF SsoEntry(r, _hash_token(l.sso_in)) = NoRec
            THEN Out(Ret([l EXCEPT !.sess = NoRec]), r)
            ELSE Out([l EXCEPT !.pc = "sso_v_getsso",
                               !.vuser = SsoEntry(r, _hash_token(l.sso_in)).user_id], r)
      [] l.pc = "sso_v_getsso" ->
            IF r.sso[l.vuser] = NoRec
            THEN Out(Ret([l EXCEPT !.sess = NoRec]), r)
            ELSE IF r.sso[l.vuser].token_hash # _hash_token(l.sso_in)
            THEN Out(Ret([l EXCEPT !.sess = NoRec]), r)
            ELSE Out([l EXCEPT !.pc = "sso_v_ttl",
                               !.sess = [r.sso[l.vuser] EXCEPT !.last_activity = t]], r)
      [] l.pc = "sso_v_ttl" ->
            LET ttl == IF r.sso[l.vuser] = NoRec THEN -2 ELSE r.sso[l.vuser].exp - t
            IN  IF ttl > 0
                THEN Out([l EXCEPT !.pc = "sso_v_setex", !.ttl = ttl], r)
                ELSE Out(Ret(l), r)
      [] OTHER -> \* "sso_v_setex"
            Out(Ret(l), [r EXCEPT !.sso[l.vuser] = [l.sess EXCEPT !.exp = t + l.ttl]])

(***************************************************************************)
(* SessionService (services/session_service.py).                           *)
(* redis-py refuses to encode None as a command argument                   *)
(* (redis.exceptions.DataError), so SADD/SREM with device_id None raise.   *)
(***************************************************************************)
get_session(r, u, c, d) == r.session[_session_key(u, c, d)]

\* variant: any live session of the triple vouches for the token
validate_refresh_token_any_hash(r, u, c, d, tok) ==
    get_session(r, u, c, d) # NoRec

validate_refresh_token(r, u, c, d, tok) ==
    /\ get_session(r, u, c, d) # NoRec
    /\ get_session(r, u, c, d).refresh_token_hash = _hash_token(tok)

\* create_session lines 72-87, once existing_sessions (l.found) is read
CsDecide(l) ==
    LET is_same_device == l.device \in {s.device_id : s \in l.found}
    IN  IF l.single
        THEN IF Cardinality(l.found) > 0 /\ ~is_same_device
             THEN Raise(l, "AlreadyLoggedInElsewhere")
             ELSE IF is_same_device
             THEN Call(l, "dcd_del", "cs_setex")
             ELSE Goto(l, "cs_setex")
        ELSE IF Cardinality(l.found) >= MAX_ACTIVE_SESSIONS
             THEN Call(l, "dcd_del", "cs_setex")
             ELSE Goto(l, "cs_setex")

\* where get_client_sessions returns to: create_session goes on with its
\* decision, the listing endpoint has its answer
CsReturn(l) == IF l.op = "get_client_sessions" THEN Ret(l) ELSE CsDecide(l)

\* get_client_sessions: SMEMBERS, then one GET per member
get_client_sessions(l, r) ==
    CASE l.pc = "cs_smembers" ->
            LET ids == r.client_sessions[_client_sessions_key(l.user, l.client)].mem
            IN  IF ids = {}
                THEN Out(CsReturn([l EXCEPT !.found = {}]), r)
                ELSE Out([l EXCEPT !.pc = "cs_get", !.ids = ids, !.found = {}], r)
      [] OTHER -> \* "cs_get"
            LET m  == CHOOSE x \in l.ids : TRUE
                s  == r.session[<<l.user, l.client, m>>]
                l2 == [l EXCEPT !.ids = l.ids \ {m},
                                !.found = IF s = NoRec THEN l.found ELSE l.found \cup {s}]
            IN  IF l2.ids = {} THEN Out(CsReturn(l2), r) ELSE Out(l2, r)

\* get_all_sessions: SMEMBERS of the user index, then one GET per pair
get_all_sessions(l, r) ==
    CASE l.pc = "gas_smembers" ->
            LET pairs == r.user_sessions[l.user].mem
            IN  IF pairs = {}
                THEN Out(Ret([l EXCEPT !.found = {}]), r)
                ELSE Out([l EXCEPT !.pc = "gas_get", !.ids = pairs, !.found = {}], r)
      [] OTHER -> \* "gas_get"
            LET m  == CHOOSE x \in l.ids : TRUE
                s  == r.session[<<l.user, m[1], m[2]>>]
                l2 == [l EXCEPT !.ids = l.ids \ {m},
                                !.found = IF s = NoRec THEN l.found ELSE l.found \cup {s}]
            IN  IF l2.ids = {} THEN Out(Ret(l2), r) ELSE Out(l2, r)

\* variant: the user-level index is not written
create_session_no_user_index(l, r, t) ==
    CASE l.pc = "cs_setex" ->
            Out(Goto(l, "cs_sadd1"),
                [r EXCEPT !.session[_session_key(l.user, l.client, l.device)] =
                    [device_id |-> l.device,
                     refresh_token_hash |-> _hash_token(l.rt),
                     last_activity |-> t, exp |-> t + SESSION_TTL]])
      [] l.pc = "cs_sadd1" ->
            IF l.device = Nil
            THEN Out(Raise(l, "DataError"), r)
            ELSE Out(Goto(l, "cs_exp1"),
                     [r EXCEPT !.client_sessions[_client_sessions_key(l.user, l.client)] =
                         SAdd(@, l.device)])
      [] l.pc = "cs_exp1" ->
            Out(Goto(l, "cs_sadd2"),
                [r EXCEPT !.client_sessions[_client_sessions_key(l.user, l.client)] =
                    Expire(@, t + SESSION_TTL)])
      [] l.pc = "cs_sadd2" ->
            Out(Goto(l, "cs_exp2"), r)
      [] OTHER -> \* "cs_exp2"
            Out(Ret(l),
                [r EXCEPT !.user_sessions[l.user] = Expire(@, t + SESSION_TTL)])

\* create_session lines 89-115: SETEX, SADD, EXPIRE, SADD, EXPIRE
create_session(l, r, t) ==
    CASE l.pc = "cs_setex" ->
            Out(Goto(l, "cs_sadd1"),
                [r EXCEPT !.session[_session_key(l.user, l.client, l.device)] =
                    [device_id |-> l.device,
                     refresh_token_hash |-> _hash_token(l.rt),
                     last_activity |-> t, exp |-> t + SESSION_TTL]])
      [] l.pc = "cs_sadd1" ->
            IF l.device = Nil
            THEN Out(Raise(l, "DataError"), r)
            ELSE Out(Goto(l, "cs_exp1"),
                     [r EXCEPT !.client_sessions[_client_sessions_key(l.user, l.client)] =
                         SAdd(@, l.device)])
      [] l.pc = "cs_exp1" ->
            Out(Goto(l, "cs_sadd2"),
                [r EXCEPT !.client_sessions[_client_sessions_key(l.user, l.client)] =
                    Expire(@, t + SESSION_TTL)])
      [] l.pc = "cs_sadd2" ->
            Out(Goto(l, "cs_exp2"),
                [r EXCEPT !.user_sessions[l.user] = SAdd(@, <<l.client, l.device>>)])
      [] OTHER -> \* "cs_exp2"
            Out(Ret(l),
                [r EXCEPT !.user_sessions[l.user] = Expire(@, t + SESSION_TTL)])

\* variant: the record is rewritten with its old refresh_token_hash
update_session_keep_hash(l, r, t) ==
    CASE l.pc = "us_get" ->
            IF get_session(r, l.user, l.client, l.device) = NoRec
            THEN Out(Ret(l), r)
            ELSE Out([l EXCEPT !.pc = "us_setex",
                               !.sess = [get_session(r, l.user, l.client, l.device)
                                           EXCEPT !.last_activity = t]], r)
      [] OTHER -> \* "us_setex"
            Out(Ret(l),
                [r EXCEPT !.session[_session_key(l.user, l.client, l.device)] =
                    [l.sess EXCEPT !.exp = t + SESSION_TTL]])

\* update_session: GET, then SETEX of the modified blob with the full TTL
update_session(l, r, t) ==
    CASE l.pc = "us_get" ->
            IF get_session(r, l.user, l.client, l.device) = NoRec
            THEN Out(Ret(l), r)
            ELSE Out([l EXCEPT !.pc = "us_setex",
                               !.sess = [get_session(r, l.user, l.client, l.device)
                                           EXCEPT !.last_activity = t,
                                                  !.refresh_token_hash = _hash_token(l.rt)]], r)
      [] OTHER -> \* "us_setex"
            Out(Ret(l),
                [r EXCEPT !.session[_session_key(l.user, l.client, l.device)] =
                    [l.sess EXCEPT !.exp = t + SESSION_TTL]])

\* delete_client_device_session: DEL, SREM, SREM
delete_client_device_session(l, r) ==
    CASE l.pc = "dcd_del" ->
            Out(Goto(l, "dcd_srem1"),
                [r EXCEPT !.session[_session_key(l.user, l.client, l.device)] = NoRec])
      [] l.pc = "dcd_srem1" ->
            IF l.device = Nil
            THEN Out(Raise(l, "DataError"), r)
            ELSE Out(Goto(l, "dcd_srem2"),
                     [r EXCEPT !.client_sessions[_client_sessions_key(l.user, l.client)] =
                         SRem(@, l.device)])
      [] OTHER -> \* "dcd_srem2"
            Out(Ret(l),
                [r EXCEPT !.user_sessions[l.user] = SRem(@, <<l.client, l.device>>)])

\* delete_client_sessions: SMEMBERS, per device DEL and SREM, DEL of the set
delete_client_sessions(l, r) ==
    CASE l.pc = "dcs_smembers" ->
            LET ids == r.client_sessions[_client_sessions_key(l.user, l.client)].mem
            IN  IF ids = {}
                THEN Out(Goto(l, "dcs_delkey"), r)
                ELSE Out([l EXCEPT !.pc = "dcs_del", !.ids = ids], r)
      [] l.pc = "dcs_del" ->
            LET m == CHOOSE x \in l.ids : TRUE
            IN  Out([l EXCEPT !.pc = "dcs_srem", !.cur = m],
                    [r EXCEPT !.session[<<l.user, l.client, m>>] = NoRec])
      [] l.pc = "dcs_srem" ->
            Out([l EXCEPT !.pc = IF l.ids \ {l.cur} = {} THEN "dcs_delkey" ELSE "dcs_del",
                          !.ids = l.ids \ {l.cur}],
                [r EXCEPT !.user_sessions[l.user] = SRem(@, <<l.client, l.cur>>)])
      [] OTHER -> \* "dcs_delkey"
            Out(Ret(l),
                [r EXCEPT !.client_sessions[_client_sessions_key(l.user, l.client)] = EmptyIdx])

\* delete_all_sessions: SMEMBERS, per pair DEL and SREM, DEL of the set
delete_all_sessions(l, r) ==
    CASE l.pc = "das_smembers" ->
            LET ids == r.user_sessions[l.user].mem
            IN  IF ids = {}
                THEN Out(Goto(l, "das_delkey"), r)
                ELSE Out([l EXCEPT !.pc = "das_del", !.ids = ids], r)
      [] l.pc = "das_del" ->
            LET m == CHOOSE x \in l.ids : TRUE
            IN  Out([l EXCEPT !.pc = "das_srem", !.curc = m[1], !.cur = m[2]],
                    [r EXCEPT !.session[<<l.user, m[1], m[2]>>] = NoRec])
      [] l.pc = "das_srem" ->
            Out([l EXCEPT !.pc = IF l.ids \ {<<l.curc, l.cur>>} = {}
                                 THEN "das_delkey" ELSE "das_del",
                          !.ids = l.ids \ {<<l.curc, l.cur>>}],
                [r EXCEPT !.client_sessions[_client_sessions_key(l.user, l.curc)] =
                    SRem(@, l.cur)])
      [] OTHER -> \* "das_delkey"
            Out(Ret(l), [r EXCEPT !.user_sessions[l.user] = EmptyIdx])

(***************************************************************************)
(* Flow orchestration: ClientValidator, TokenHelper, AuthService.          *)
(***************************************************************************)
\* TokenHelper.extract_allowed_apps_from_user: codes of the active
\* applications linked to the user
extract_allowed_apps_from_user(d, u) == {a \in d.allowed[u] : d.active[a]}

\* variant: the application is checked only after create_sso_session returned
validate_client_access_after_sso(l, d) ==
    IF l.sso_tok = 0
    THEN Call(l, "sso_c_get", "lg_gate")
    ELSE IF l.client = Nil
    THEN Goto([l EXCEPT !.single = FALSE,
                        !.apps = extract_allowed_apps_from_user(d, l.user)],
              "lg_tokens")
    ELSE IF l.client \notin Apps \/ ~d.active[l.client]
    THEN Raise(l, "AppNotFound")
    ELSE IF l.client \notin d.allowed[l.user]
    THEN Raise(l, "AppNotPermitted")
    ELSE Goto([l EXCEPT !.single = single_session(l.client),
                        !.apps = extract_allowed_apps_from_user(d, l.user)],
              "lg_tokens")

\* ClientValidator.validate_client_access, then the call of
\* create_login_response, which starts with create_sso_session
validate_client_access(l, d) ==
    IF l.client = Nil
    THEN Call([l EXCEPT !.single = FALSE,
                        !.apps = extract_allowed_apps_from_user(d, l.user)],
              "sso_c_get", "lg_tokens")
    ELSE IF l.client \notin Apps \/ ~d.active[l.client]
    THEN Raise(l, "AppNotFound")
    ELSE IF l.client \notin d.allowed[l.user]
    THEN Raise(l, "AppNotPermitted")
    ELSE Call([l EXCEPT !.single = single_session(l.client),
                        !.apps = extract_allowed_apps_from_user(d, l.user)],
              "sso_c_get", "lg_tokens")

\* variant: the SSO-only refresh token names the caller's device
create_login_response_sso_device(l, t) ==
    CASE l.pc = "lg_tokens" ->
            IF l.client = Nil
            THEN Ret([l EXCEPT !.at = create_access_token(l.user, Nil, l.apps, t),
                               !.rt = create_refresh_token(l.user, Nil, l.device, t)])
            ELSE Call([l EXCEPT !.at = create_access_token(l.user, l.client, l.apps, t),
                                !.rt = create_refresh_token(l.user, l.client, Nil, t)],
                      "cs_smembers", "lg_resign")
      [] OTHER -> \* "lg_resign"
            [l EXCEPT !.pc = "us_get",
                      !.device_out = l.device,
                      !.rt = create_refresh_token(l.user, l.client, l.device, t)]

\* TokenHelper.create_login_response lines 64-142 and
\* create_app_tokens_for_exchange lines 170-218, between the awaits
create_login_response(l, t) ==
    CASE l.pc = "lg_tokens" ->
            IF l.client = Nil
            THEN Ret([l EXCEPT !.at = create_access_token(l.user, Nil, l.apps, t),
                               !.rt = create_refresh_token(l.user, Nil, Nil, t)])
            ELSE Call([l EXCEPT !.at = create_access_token(l.user, l.client, l.apps, t),
                                !.rt = create_refresh_token(l.user, l.client, Nil, t)],
                      "cs_smembers", "lg_resign")
      [] OTHER -> \* "lg_resign"
            [l EXCEPT !.pc = "us_get",
                      !.device_out = l.device,
                      !.rt = create_refresh_token(l.user, l.client, l.device, t)]

\* variant: the user's grant for the application is not looked up
exchange_sso_token_no_grant_check(l, d, t) ==
    IF l.sess = NoRec
    THEN Raise(l, "InvalidSsoSession")
    ELSE IF d.deleted[l.sess.user_id]
    THEN Raise(l, "UserNotFound")
    ELSE IF l.client \notin Apps \/ ~d.active[l.client]
    THEN Raise(l, "AppNotFound")
    ELSE create_login_response(
            [l EXCEPT !.pc = "lg_tokens",
                      !.user = l.sess.user_id,
                      !.sso_tok = l.sso_in,
                      !.single = single_session(l.client),
                      !.apps = extract_allowed_apps_from_user(d, l.sess.user_id)], t)

\* AuthService.exchange_sso_token lines 54-85, after validate_sso_token
\* variant: the exchange trusts the user id of the SSO session and does not
\* look the user up
exchange_sso_token_no_user_lookup(l, d, t) ==
    IF l.sess = NoRec
    THEN Raise(l, "InvalidSsoSession")
    ELSE IF l.client \notin Apps \/ ~d.active[l.client]
    THEN Raise(l, "AppNotFound")
    ELSE IF l.client \notin d.allowed[l.sess.user_id]
    THEN Raise(l, "AppNotPermitted")
    ELSE create_login_response(
            [l EXCEPT !.pc = "lg_tokens",
                      !.user = l.sess.user_id,
                      !.sso_tok = l.sso_in,
                      !.single = single_session(l.client),
                      !.apps = extract_allowed_apps_from_user(d, l.sess.user_id)], t)

exchange_sso_token(l, d, t) ==
    IF l.sess = NoRec
    THEN Raise(l, "InvalidSsoSession")
    ELSE IF d.deleted[l.sess.user_id]
    THEN Raise(l, "UserNotFound")
    ELSE IF l.client \notin Apps \/ ~d.active[l.client]
    THEN Raise(l, "AppNotFound")
    ELSE IF l.client \notin d.allowed[l.sess.user_id]
    THEN Raise(l, "AppNotPermitted")
    ELSE create_login_response(
            [l EXCEPT !.pc = "lg_tokens",
                      !.user = l.sess.user_id,
                      !.sso_tok = l.sso_in,
                      !.single = single_session(l.client),
                      !.apps = extract_allowed_apps_from_user(d, l.sess.user_id)], t)

\* variant: a differing caller device is replaced by the device of the token
refresh_token_trust_token_device(l, r, d, t) ==
    CASE l.pc = "rf_validate" ->
            IF ~verify_token(l.tok, "refresh", t)
            THEN Out(Raise(l, "InvalidToken"), r)
            ELSE LET client_id == IF l.tok.client_id # Nil THEN l.tok.client_id
                                  ELSE SSO_PORTAL
                     device_id == IF Claim(l.tok, "device_id", Nil) # Nil
                                  THEN l.tok.device_id ELSE l.device
                 IN  IF ~validate_refresh_token(r, l.tok.sub, client_id, device_id, l.tok)
                     THEN Out(Raise(l, "InvalidSession"), r)
                     ELSE Out([l EXCEPT !.pc = "rf_user", !.user = l.tok.sub,
                                        !.client = client_id], r)
      [] OTHER -> \* "rf_user"
            IF d.deleted[l.user]
            THEN Out(Raise(l, "UserNotFound"), r)
            ELSE Out([l EXCEPT !.pc = "us_get",
                        !.apps = extract_allowed_apps_from_user(d, l.user),
                        !.at = create_access_token(l.user, l.client,
                                   extract_allowed_apps_from_user(d, l.user), t),
                        !.rt = create_refresh_token(l.user, l.client, l.device, t)], r)

\* AuthService.refresh_token
\* variant: a token without client_id is vouched for by the SSO session
refresh_token_portal_by_sso(l, r, d, t) ==
    CASE l.pc = "rf_validate" ->
            IF ~verify_token(l.tok, "refresh", t)
            THEN Out(Raise(l, "InvalidToken"), r)
            ELSE LET client_id == IF l.tok.client_id # Nil THEN l.tok.client_id
                                  ELSE SSO_PORTAL
                 IN  IF Claim(l.tok, "device_id", Nil) # Nil
                        /\ Claim(l.tok, "device_id", Nil) # l.device
                     THEN Out(Raise(l, "DeviceMismatch"), r)
                     ELSE IF IF l.tok.client_id = Nil
                             THEN r.sso[l.tok.sub] = NoRec
                             ELSE ~validate_refresh_token(r, l.tok.sub, client_id,
                                                          l.device, l.tok)
                     THEN Out(Raise(l, "InvalidSession"), r)
                     ELSE Out([l EXCEPT !.pc = "rf_user", !.user = l.tok.sub,
                                        !.client = client_id], r)
      [] OTHER -> \* "rf_user"
            IF d.deleted[l.user]
            THEN Out(Raise(l, "UserNotFound"), r)
            ELSE Out([l EXCEPT !.pc = "us_get",
                        !.apps = extract_allowed_apps_from_user(d, l.user),
                        !.at = create_access_token(l.user, l.client,
                                   extract_allowed_apps_from_user(d, l.user), t),
                        !.rt = create_refresh_token(l.user, l.client, l.device, t)], r)

refresh_token(l, r, d, t) ==
    CASE l.pc = "rf_validate" ->
            IF ~verify_token(l.tok, "refresh", t)
            THEN Out(Raise(l, "InvalidToken"), r)
            ELSE LET client_id == IF l.tok.client_id # Nil THEN l.tok.client_id
                                  ELSE SSO_PORTAL
                 IN  IF Claim(l.tok, "device_id", Nil) # Nil
                        /\ Claim(l.tok, "device_id", Nil) # l.device
                     THEN Out(Raise(l, "DeviceMismatch"), r)
                     ELSE IF ~validate_refresh_token(r, l.tok.sub, client_id, l.device, l.tok)
                     THEN Out(Raise(l, "InvalidSession"), r)
                     ELSE Out([l EXCEPT !.pc = "rf_user", !.user = l.tok.sub,
                                        !.client = client_id], r)
      [] OTHER -> \* "rf_user"
            IF d.deleted[l.user]
            THEN Out(Raise(l, "UserNotFound"), r)
            ELSE Out([l EXCEPT !.pc = "us_get",
                        !.apps = extract_allowed_apps_from_user(d, l.user),
                        !.at = create_access_token(l.user, l.client,
                                   extract_allowed_apps_from_user(d, l.user), t),
                        !.rt = create_refresh_token(l.user, l.client, l.device, t)], r)

\* variant: the token is honoured only while its user holds a session
verify_access_token_needs_session(l, r, t) ==
    IF ~verify_token(l.tok, "access", t)
    THEN Out(Raise(l, "InvalidToken"), r)
    ELSE IF \A k \in SessionKeys : k[1] = l.tok.sub => r.session[k] = NoRec
    THEN Out(Raise(l, "InvalidSession"), r)
    ELSE Out(Ret([l EXCEPT !.user = l.tok.sub,
                           !.apps = Claim(l.tok, "allowed_apps", {})]), r)

\* AuthService.verify_access_token: signature, exp and type through
\* verify_token, then the claims of the payload; no store is read
verify_access_token(l, r, t) ==
    IF ~verify_token(l.tok, "access", t)
    THEN Out(Raise(l, "InvalidToken"), r)
    ELSE Out(Ret([l EXCEPT !.user = l.tok.sub,
                           !.apps = Claim(l.tok, "allowed_apps", {})]), r)

(***************************************************************************)
(* Identity resolution.  The relational reads and writes of one request    *)
(* run in one transaction; a resolution yields the frame to go on with     *)
(* (at the access gate, or raised) and the relational store it leaves.     *)
(*   l.cred  <<email, password>> or <<google_id, email>>                   *)
(***************************************************************************)
Resolved(l, d) == [l |-> l, d |-> d]

\* variant: an address no user has is reported as such
email_login_tells_unknown_email(l, d, t) ==
    LET email    == l.cred[1]
        password == l.cred[2]
        user     == get_by_email(d, email)
        auth_provider == get_by_provider_user_id(d, "email", email)
    IN  IF user = Nil
        THEN Resolved(Raise(l, "UserNotFound"), d)
        ELSE IF auth_provider = NoRec \/ auth_provider.password_hash = NoHash
        THEN Resolved(Raise(l, "InvalidCredentials"), d)
        ELSE IF ~verify_password(password, auth_provider.password_hash)
        THEN Resolved(Raise(l, "InvalidCredentials"), d)
        ELSE Resolved([l EXCEPT !.pc = "lg_gate", !.user = user],
                      update_last_used(d, "email", email, t))

\* EmailAuthService.login / EmailLoginUseCase.execute up to
\* validate_client_access
email_login(l, d, t) ==
    LET email    == l.cred[1]
        password == l.cred[2]
        user     == get_by_email(d, email)
        auth_provider == get_by_provider_user_id(d, "email", email)
    IN  IF user = Nil
        THEN Resolved(Raise(l, "InvalidCredentials"), d)
        ELSE IF auth_provider = NoRec \/ auth_provider.password_hash = NoHash
        THEN Resolved(Raise(l, "InvalidCredentials"), d)
        ELSE IF ~verify_password(password, auth_provider.password_hash)
        THEN Resolved(Raise(l, "InvalidCredentials"), d)
        ELSE Resolved([l EXCEPT !.pc = "lg_gate", !.user = user],
                      update_last_used(d, "email", email, t))

\* variant: an identity nobody is registered for gets a user row
google_callback_registers(l, d, t) ==
    LET google_id == l.cred[1]
        email     == l.cred[2]
        auth_provider == get_by_provider_user_id(d, "google", google_id)
    IN  IF auth_provider # NoRec
        THEN Resolved([l EXCEPT !.pc = "lg_gate", !.user = auth_provider.user_id],
                      update_last_used(d, "google", google_id, t))
        ELSE IF email = Nil \/ get_by_email(d, email) = Nil
        THEN Resolved(Raise(l, "UserNotRegistered"),
                      [d EXCEPT !.users = @ \cup {"u2"}])
        ELSE Resolved([l EXCEPT !.pc = "lg_gate", !.user = get_by_email(d, email)],
                      create_auth_provider(d, get_by_email(d, email), "google", google_id))

\* GoogleOAuthHandleCallbackUseCase.execute up to validate_client_access,
\* once Google has verified the code
google_callback(l, d, t) ==
    LET google_id == l.cred[1]
        email     == l.cred[2]
        auth_provider == get_by_provider_user_id(d, "google", google_id)
    IN  IF auth_provider # NoRec
        THEN Resolved([l EXCEPT !.pc = "lg_gate", !.user = auth_provider.user_id],
                      update_last_used(d, "google", google_id, t))
        ELSE IF email = Nil
        THEN Resolved(Raise(l, "UserNotRegistered"), d)
        ELSE IF get_by_email(d, email) = Nil
        THEN Resolved(Raise(l, "UserNotRegistered"), d)
        ELSE Resolved([l EXCEPT !.pc = "lg_gate", !.user = get_by_email(d, email)],
                      create_auth_provider(d, get_by_email(d, email), "google", google_id))

\* the resolution a login request starts with
resolve(l, d, t) ==
    IF l.op = "email_login" THEN email_login(l, d, t) ELSE google_callback(l, d, t)

\* HTTP status of each error (core/exceptions)
Status(e) ==
    CASE e \in {"InvalidToken", "DeviceMismatch", "InvalidSession", "InvalidSsoSession",
                 "InvalidCredentials", "UserNotRegistered"} -> 401
      [] e = "AlreadyLoggedInElsewhere" -> 400
      [] e = "AppNotPermitted" -> 403
      [] e \in {"AppNotFound", "UserNotFound"} -> 404
      [] OTHER -> 500

(***************************************************************************)
(* One await of a handler, and a handler run to completion.                *)
(***************************************************************************)
Step(l, r, d, t) ==
    CASE l.pc = "lg_gate" -> Out(validate_client_access(l, d), r)
      [] l.pc \in {"lg_tokens", "lg_resign"} -> Out(create_login_response(l, t), r)
      [] l.pc = "ex_gate" -> Out(exchange_sso_token(l, d, t), r)
      [] l.pc \in {"rf_validate", "rf_user"} -> refresh_token(l, r, d, t)
      [] l.pc = "va_verify" -> verify_access_token(l, r, t)
      [] l.pc \in {"sso_c_get", "sso_c_setsso", "sso_c_settok"} -> create_sso_session(l, r, t)
      [] l.pc \in {"sso_d_get", "sso_d_deltok", "sso_d_delsso"} ->
            _delete_sso_session_internal(l, r)
      [] l.pc = "sso_x_get" -> delete_sso_session(l, r)
      [] l.pc \in {"sso_v_gettok", "sso_v_getsso", "sso_v_ttl", "sso_v_setex"} ->
            validate_sso_token(l, r, t)
      [] l.pc \in {"cs_smembers", "cs_get"} -> get_client_sessions(l, r)
      [] l.pc \in {"gas_smembers", "gas_get"} -> get_all_sessions(l, r)
      [] l.pc \in {"cs_setex", "cs_sadd1", "cs_exp1", "cs_sadd2", "cs_exp2"} ->
            create_session(l, r, t)
      [] l.pc \in {"us_get", "us_setex"} -> update_session(l, r, t)
      [] l.pc \in {"dcd_del", "dcd_srem1", "dcd_srem2"} -> delete_client_device_session(l, r)
      [] l.pc \in {"dcs_smembers", "dcs_del", "dcs_srem", "dcs_delkey"} ->
            delete_client_sessions(l, r)
      [] l.pc \in {"das_smembers", "das_del", "das_srem", "das_delkey"} ->
            delete_all_sessions(l, r)
      [] OTHER -> Out(l, r)

\* run a handler until it has finished or reached one of the places in stops
RECURSIVE RunTo(_, _, _, _, _)
RunTo(l, r, d, t, stops) ==
    IF l.pc \in {"done", "idle"} \cup stops
    THEN Out(l, r)
    ELSE LET o == Step(l, r, d, t) IN RunTo(o.l, o.r, d, t, stops)

Run(l, r, d, t) == RunTo(l, r, d, t, {})

\* what a finished handler leaves behind: its arguments and its outcome
Result(l) ==
    [l EXCEPT !.ids = {}, !.found = {}, !.cur = Nil, !.curc = Nil,
              !.hash = <<>>, !.ttl = 0, !.vuser = Nil]

\* entry frames of the operations
LoginFrame(u, c, d, fresh) == Frame("login", "lg_gate", <<>>, u, c, d, NoTok, 0, fresh)
ExchangeFrame(s, c, d) == Frame("exchange", "sso_v_gettok", <<"ex_gate">>, Nil, c, d, NoTok, s, 0)
RefreshFrame(tok, d) == Frame("refresh", "rf_validate", <<>>, Nil, Nil, d, tok, 0, 0)
LogoutAllFrame(u) == Frame("logout_all", "das_smembers", <<"sso_x_get">>, u, Nil, Nil, NoTok, 0, 0)
\* variant: the SSO logout also drops the sessions of every client
LogoutSsoFrame_every_client(u) ==
    Frame("logout_sso", "sso_x_get", <<"das_smembers">>, u, SSO_PORTAL, Nil, NoTok, 0, 0)
LogoutSsoFrame(u) ==
    Frame("logout_sso", "sso_x_get", <<"dcs_smembers">>, u, SSO_PORTAL, Nil, NoTok, 0, 0)
LogoutClientFrame(u, c) == Frame("logout_client", "dcs_smembers", <<>>, u, c, Nil, NoTok, 0, 0)
LogoutClientDeviceFrame(u, c, d) ==
    Frame("logout_client_device", "dcd_del", <<>>, u, c, d, NoTok, 0, 0)
GetClientSessionsFrame(u, c) ==
    Frame("get_client_sessions", "cs_smembers", <<>>, u, c, Nil, NoTok, 0, 0)
GetAllSessionsFrame(u) ==
    Frame("get_all_sessions", "gas_smembers", <<>>, u, Nil, Nil, NoTok, 0, 0)
ValidateSsoFrame(s) == Frame("validate_sso", "sso_v_gettok", <<>>, Nil, Nil, Nil, NoTok, s, 0)
VerifyAccessFrame(tok) == Frame("verify_access", "va_verify", <<>>, Nil, Nil, Nil, tok, 0, 0)
EmailLoginFrame(email, password, c, d, fresh) ==
    [Frame("email_login", "el_user", <<>>, Nil, c, d, NoTok, 0, fresh)
        EXCEPT !.cred = <<email, password>>]
GoogleCallbackFrame(google_id, email, c, d, fresh) ==
    [Frame("google_login", "gc_provider", <<>>, Nil, c, d, NoTok, 0, fresh)
        EXCEPT !.cred = <<google_id, email>>]

(***************************************************************************)
(* State.                                                                  *)
(*   redis  the Redis keyspace          db    the relational store         *)
(*   now    the clock                   uuid  next value uuid4 will draw   *)
(*   last   the observed request: the frame (arguments and outcome) of the *)
(*          handler that completed last.  Any completion may be the        *)
(*          observed one; a behaviour ends with it, so that the state it   *)
(*          is judged in is the state it left.                             *)
(*   procs  the frames of the requests in flight (SpecConc)                *)
(*   nops   number of requests started so far                              *)
(***************************************************************************)
VARIABLES redis, db, now, uuid, last, procs, nops

vars == <<redis, db, now, uuid, last, procs, nops>>

Procs == {"p1", "p2"}

InitDb ==
    [active  |-> [a \in Apps |-> TRUE],
     allowed |-> [u \in Users |-> Apps],
     deleted |-> [u \in Users |-> FALSE],
     users   |-> Users,
     email   |-> [u \in Users |-> "e1"],
     status  |-> [u \in Users |-> "active"],
     binding |-> [k \in BindingKeys |->
                    IF k = <<"email", "e1">>
                    THEN [user_id |-> "u1", password_hash |-> hash_password("p1"),
                          last_used_at |-> -1]
                    ELSE NoRec]]

Init ==
    /\ redis = EmptyRedis
    /\ db = InitDb
    /\ now = 0
    /\ uuid = 1
    /\ last = IdleFrame
    /\ procs = [p \in Procs |-> IdleFrame]
    /\ nops = 0

\* a whole handler, run without interleaving
Do(f) ==
    /\ nops < MaxOps
    /\ last = IdleFrame
    /\ LET o == Run(f, redis, db, now)
       IN  /\ redis' = o.r
           /\ \/ last' = Result(o.l)
              \/ last' = IdleFrame
    /\ nops' = nops + 1
    /\ UNCHANGED <<db, now, procs>>

Tick ==
    /\ now < MaxTime
    /\ last = IdleFrame
    /\ now' = now + 1
    /\ redis' = Purge(redis, now + 1)
    /\ UNCHANGED <<db, uuid, last, procs, nops>>

Login ==
    \E u \in Users, c \in Apps \cup {Nil}, d \in Devices \cup {Nil} :
        /\ uuid <= MaxSso
        /\ Do(LoginFrame(u, c, d, uuid))
        /\ uuid' = uuid + 1

ExchangeSsoToken ==
    \E s \in 0..(uuid - 1), c \in Apps, d \in Devices \cup {Nil} :
        Do(ExchangeFrame(s, c, d)) /\ UNCHANGED uuid

RefreshToken ==
    \E tok \in RefreshTokens(now), d \in Devices :
        Do(RefreshFrame(tok, d)) /\ UNCHANGED uuid

LogoutAll == \E u \in Users : Do(LogoutAllFrame(u)) /\ UNCHANGED uuid

LogoutSso == \E u \in Users : Do(LogoutSsoFrame(u)) /\ UNCHANGED uuid

LogoutClient ==
    \E u \in Users, c \in ClientCodes : Do(LogoutClientFrame(u, c)) /\ UNCHANGED uuid

LogoutClientDevice ==
    \E u \in Users, c \in ClientCodes, d \in Devices :
        Do(LogoutClientDeviceFrame(u, c, d)) /\ UNCHANGED uuid

ValidateSsoToken ==
    \E s \in 0..(uuid - 1) : Do(ValidateSsoFrame(s)) /\ UNCHANGED uuid

\* an SSO exchange observed at the moment its create_session call returns
\* (or raises), before the refresh token is signed again
CreateSessionReturns ==
    \E s \in 1..(uuid - 1), c \in Apps, d \in Devices \cup {Nil} :
        /\ nops < MaxOps
        /\ last = IdleFrame
        /\ LET o == RunTo(ExchangeFrame(s, c, d), redis, db, now, {"lg_resign"})
           IN  redis' = o.r /\ last' = Result(o.l)
        /\ nops' = nops + 1
        /\ UNCHANGED <<db, now, uuid, procs>>

Next ==
    \/ Tick
    \/ Login
    \/ ExchangeSsoToken
    \/ RefreshToken
    \/ LogoutAll
    \/ LogoutSso
    \/ LogoutClient
    \/ LogoutClientDevice
    \/ ValidateSsoToken
    \/ CreateSessionReturns

Spec == Init /\ [][Next]_vars

\* the same handlers, starting where a first login of u1 on the
\* single-session application has just completed
InitLoggedIn ==
    /\ redis = Run(LoginFrame("u1", "kiosk", "d1", 1), EmptyRedis, InitDb, 0).r
    /\ db = InitDb
    /\ now = 0
    /\ uuid = 2
    /\ last = IdleFrame
    /\ procs = [p \in Procs |-> IdleFrame]
    /\ nops = 0

SpecLoggedIn == InitLoggedIn /\ [][Next]_vars

(***************************************************************************)
(* Interleaved execution: every request in flight owns a frame in procs    *)
(* and advances by one await at a time; the clock ticks at any moment.     *)
(***************************************************************************)
Idle(p) == procs[p].pc = "idle"

Quiescent == \A p \in Procs : procs[p].pc \in {"idle", "done"}

\* the requests are interchangeable: p2 takes one only while p1 is busy
Start(p, f) ==
    /\ nops < MaxConcOps
    /\ Idle(p)
    /\ p = "p1" \/ ~Idle("p1")
    /\ procs' = [procs EXCEPT ![p] = f]
    /\ nops' = nops + 1
    /\ UNCHANGED <<redis, db, now, last>>

\* one await of one request; last keeps the login whose create_sso_session
\* returned most recently
CStep ==
    \E p \in Procs :
        /\ procs[p].pc \notin {"idle", "done"}
        /\ LET o == Step(procs[p], redis, db, now)
           IN  /\ redis' = o.r
               /\ procs' = [procs EXCEPT ![p] = IF o.l.pc = "done" THEN IdleFrame ELSE o.l]
               /\ last' = IF procs[p].pc = "sso_c_settok"
                          THEN Result([o.l EXCEPT !.pc = "done", !.ret = <<>>])
                          ELSE last
        /\ UNCHANGED <<db, now, uuid, nops>>

CLogin ==
    \E p \in Procs, u \in Users, c \in {"kiosk", Nil}, d \in Devices :
        /\ uuid <= MaxSso
        /\ Start(p, LoginFrame(u, c, d, uuid))
        /\ uuid' = uuid + 1

CExchangeSsoToken ==
    \E p \in Procs, s \in 1..(uuid - 1), d \in Devices :
        Start(p, ExchangeFrame(s, "kiosk", d)) /\ UNCHANGED uuid

CValidateSsoToken ==
    \E p \in Procs, s \in 1..(uuid - 1) :
        Start(p, ValidateSsoFrame(s)) /\ UNCHANGED uuid

CLogoutAll ==
    \E p \in Procs, u \in Users : Start(p, LogoutAllFrame(u)) /\ UNCHANGED uuid

CLogoutSso ==
    \E p \in Procs, u \in Users : Start(p, LogoutSsoFrame(u)) /\ UNCHANGED uuid

NextConc ==
    \/ CStep
    \/ CLogin
    \/ CExchangeSsoToken
    \/ CValidateSsoToken
    \/ CLogoutAll
    \/ CLogoutSso

SpecConc == Init /\ [][NextConc]_vars

(***************************************************************************)
(* The public calls of SessionService on their own, with any arguments,    *)
(* one after the other.  A call counts once it has completed: it returned, *)
(* or create_session raised its single-session BadRequest; a call cut      *)
(* short by DataError is not a step.  The clock stands still, so no key    *)
(* expires.  The refresh tokens passed are the ones the callers sign: the  *)
(* provisional one for create_session, the final one for update_session.   *)
(***************************************************************************)
CreateSessionFrame(u, c, tok, single, d) ==
    [Frame("create_session", "cs_smembers", <<>>, u, c, d, NoTok, 0, 0)
        EXCEPT !.rt = tok, !.single = single]

UpdateSessionFrame(u, c, d, tok) ==
    [Frame("update_session", "us_get", <<>>, u, c, d, NoTok, 0, 0) EXCEPT !.rt = tok]

DeleteClientDeviceSessionFrame(u, c, d) ==
    Frame("delete_client_device_session", "dcd_del", <<>>, u, c, d, NoTok, 0, 0)

DeleteClientSessionsFrame(u, c) ==
    Frame("delete_client_sessions", "dcs_smembers", <<>>, u, c, Nil, NoTok, 0, 0)

DeleteAllSessionsFrame(u) ==
    Frame("delete_all_sessions", "das_smembers", <<>>, u, Nil, Nil, NoTok, 0, 0)

SDo(f) ==
    /\ last = IdleFrame
    /\ LET o == Run(f, redis, db, now)
       IN  /\ o.l.err # "DataError"
           /\ redis' = o.r
           /\ \/ last' = Result(o.l)
              \/ last' = IdleFrame
    /\ UNCHANGED <<db, now, uuid, procs, nops>>

SCreateSession ==
    \E u \in Users, c \in Apps, single \in BOOLEAN, d \in Devices \cup {Nil} :
        SDo(CreateSessionFrame(u, c, create_refresh_token(u, c, Nil, now), single, d))

SUpdateSession ==
    \E u \in Users, c \in Apps, d \in Devices :
        SDo(UpdateSessionFrame(u, c, d, create_refresh_token(u, c, d, now)))

SDeleteClientDeviceSession ==
    \E u \in Users, c \in Apps, d \in Devices :
        SDo(DeleteClientDeviceSessionFrame(u, c, d))

SDeleteClientSessions ==
    \E u \in Users, c \in Apps : SDo(DeleteClientSessionsFrame(u, c))

SDeleteAllSessions == \E u \in Users : SDo(DeleteAllSessionsFrame(u))

NextStore ==
    \/ SCreateSession
    \/ SUpdateSession
    \/ SDeleteClientDeviceSession
    \/ SDeleteClientSessions
    \/ SDeleteAllSessions

SpecStore == Init /\ [][NextStore]_vars

(***************************************************************************)
(* The token plane next to the admin plane: requests of one device, token  *)
(* verification, and an administrator who changes the grants of a user or  *)
(* the active flag of an application between them.  Tokens of either type  *)
(* are presented to refresh and to access verification.                    *)
(***************************************************************************)
PresentedTokens(t) ==
    {tok \in RefreshTokens(t) : tok.client_id # Nil /\ tok.device_id = "d1"}
        \cup {tok \in AccessTokens(t) : tok.client_id \in Apps}

ADo(f) == nops < MaxAdminOps /\ Do(f)

ALogin ==
    \E u \in Users, c \in Apps \cup {Nil} :
        /\ uuid <= MaxSso
        /\ ADo(LoginFrame(u, c, "d1", uuid))
        /\ uuid' = uuid + 1

AExchangeSsoToken ==
    \E s \in 1..(uuid - 1), c \in Apps :
        ADo(ExchangeFrame(s, c, "d1")) /\ UNCHANGED uuid

ARefreshToken ==
    \E tok \in PresentedTokens(now) :
        ADo(RefreshFrame(tok, "d1")) /\ UNCHANGED uuid

AVerifyAccessToken ==
    \E tok \in PresentedTokens(now) :
        ADo(VerifyAccessFrame(tok)) /\ UNCHANGED uuid

ALogoutAll == \E u \in Users : ADo(LogoutAllFrame(u)) /\ UNCHANGED uuid

AdminDo(d) ==
    /\ nops < MaxAdminOps
    /\ last = IdleFrame
    /\ d # db
    /\ db' = d
    /\ nops' = nops + 1
    /\ UNCHANGED <<redis, now, uuid, last, procs>>

AssignApplicationsToUser ==
    \E u \in Users, ids \in SUBSET Apps :
        AdminDo(assign_applications_to_user(db, u, ids))

UpdateApplication ==
    \E a \in Apps, is_active \in BOOLEAN :
        AdminDo(update_application(db, a, is_active))

NextAdmin ==
    \/ Tick
    \/ ALogin
    \/ AExchangeSsoToken
    \/ ARefreshToken
    \/ AVerifyAccessToken
    \/ ALogoutAll
    \/ AssignApplicationsToUser
    \/ UpdateApplication

SpecAdmin == Init /\ [][NextAdmin]_vars

(***************************************************************************)
(* The login paths with their identity resolution, next to the user and    *)
(* application administration: password login, Google callback, SSO        *)
(* exchange and refresh of one device, and an administrator who changes a  *)
(* user's status, deletes the user, or changes grants and active flags.    *)
(* The users table starts with one user whose email binding has a hash,    *)
(* has none, or is missing.  The commit of the request's transaction is    *)
(* outside the handlers: the writes of a request that raised are kept or   *)
(* rolled back.                                                            *)
(***************************************************************************)
\* client codes a login names: none, a registered one, an unknown one
IdClients == {Nil, "hris", "ghost"}

IdentityDbs ==
    {[InitDb EXCEPT !.binding[<<"email", "e1">>] = b] :
        b \in {InitDb.binding[<<"email", "e1">>],
               [InitDb.binding[<<"email", "e1">>] EXCEPT !.password_hash = NoHash],
               NoRec}}

InitIdentity ==
    /\ redis = EmptyRedis
    /\ db \in IdentityDbs
    /\ now = 0
    /\ uuid = 1
    /\ last = IdleFrame
    /\ procs = [p \in Procs |-> IdleFrame]
    /\ nops = 0

\* a login request: identity resolution, then the access gate and the rest
IdLogin(f) ==
    /\ nops < MaxIdOps
    /\ last = IdleFrame
    /\ uuid <= MaxSso
    /\ LET res == resolve(f, db, now)
           o   == Run(res.l, redis, res.d, now)
       IN  /\ redis' = o.r
           /\ \/ last' = Result(o.l)
              \/ last' = IdleFrame
           /\ \/ db' = res.d
              \/ ~o.l.ok /\ db' = db
    /\ uuid' = uuid + 1
    /\ nops' = nops + 1
    /\ UNCHANGED <<now, procs>>

IEmailLogin ==
    \E e \in Emails, pw \in Passwords, c \in IdClients :
        IdLogin(EmailLoginFrame(e, pw, c, "d1", uuid))

IGoogleCallback ==
    \E g \in GoogleIds, e \in Emails \cup {Nil}, c \in IdClients :
        IdLogin(GoogleCallbackFrame(g, e, c, "d1", uuid))

IdDo(f) == nops < MaxIdOps /\ Do(f)

IExchangeSsoToken ==
    \E s \in 1..(uuid - 1) : IdDo(ExchangeFrame(s, "hris", "d1")) /\ UNCHANGED uuid

IRefreshToken ==
    \E tok \in RefreshTokens(now) :
        /\ tok.client_id # Nil /\ tok.device_id = "d1"
        /\ IdDo(RefreshFrame(tok, "d1"))
        /\ UNCHANGED uuid

IdAdminDo(d) ==
    /\ nops < MaxIdOps
    /\ last = IdleFrame
    /\ d # db
    /\ db' = d
    /\ nops' = nops + 1
    /\ UNCHANGED <<redis, now, uuid, last, procs>>

IUpdateUser ==
    \E u \in Users, status \in UserStatuses : IdAdminDo(update_user(db, u, status))

IDeleteUser == \E u \in Users : IdAdminDo(delete_user(db, u))

IAssignApplicationsToUser ==
    \E u \in Users, ids \in {{}, Apps} : IdAdminDo(assign_applications_to_user(db, u, ids))

IUpdateApplication ==
    \E is_active \in BOOLEAN : IdAdminDo(update_application(db, "hris", is_active))

NextIdentity ==
    \/ IEmailLogin
    \/ IGoogleCallback
    \/ IExchangeSsoToken
    \/ IRefreshToken
    \/ IUpdateUser
    \/ IDeleteUser
    \/ IAssignApplicationsToUser
    \/ IUpdateApplication

SpecIdentity == InitIdentity /\ [][NextIdentity]_vars

(***************************************************************************)
(* Racing refreshes: after one login of (u1, hris, d1), two refresh        *)
(* requests of that device advance by one await at a time while the clock  *)
(* ticks.  A finished request keeps its frame, so that its outcome can be  *)
(* read; last keeps the refresh whose update_session wrote most recently.  *)
(***************************************************************************)
RLogin ==
    /\ nops = 0
    /\ uuid = 1
    /\ redis' = Run(LoginFrame("u1", "hris", "d1", uuid), redis, db, now).r
    /\ uuid' = uuid + 1
    /\ UNCHANGED <<db, now, last, procs, nops>>

RTick ==
    /\ now < MaxTime
    /\ now' = now + 1
    /\ redis' = Purge(redis, now + 1)
    /\ UNCHANGED <<db, uuid, last, procs, nops>>

RRefreshToken ==
    \E p \in Procs, tok \in RefreshTokens(now) :
        /\ uuid > 1
        /\ tok.client_id = "hris" /\ tok.device_id = "d1"
        /\ Start(p, RefreshFrame(tok, "d1"))
        /\ UNCHANGED uuid

\* a logout of the device, of the client or of the user
RLogout ==
    \E p \in Procs,
       f \in {LogoutClientDeviceFrame("u1", "hris", "d1"),
              LogoutClientFrame("u1", "hris"),
              LogoutAllFrame("u1")} :
        /\ uuid > 1
        /\ Start(p, f)
        /\ UNCHANGED uuid

RStep ==
    \E p \in Procs :
        /\ procs[p].pc \notin {"idle", "done"}
        /\ LET o == Step(procs[p], redis, db, now)
           IN  /\ redis' = o.r
               /\ procs' = [procs EXCEPT ![p] = IF o.l.pc = "done" THEN Result(o.l) ELSE o.l]
               /\ last' = IF procs[p].pc = "us_setex" THEN Result(o.l) ELSE last
        /\ UNCHANGED <<db, now, uuid, nops>>

NextRefresh ==
    \/ RLogin
    \/ RTick
    \/ RRefreshToken
    \/ RLogout
    \/ RStep

SpecRefresh == Init /\ [][NextRefresh]_vars

(***************************************************************************)
(* Racing calls of SessionService: after at most one create_session that   *)
(* ran alone, a create_session and a delete_client_sessions or             *)
(* delete_all_sessions advance by one Redis command at a time.  A finished *)
(* call keeps its frame.                                                   *)
(***************************************************************************)
XSeed ==
    \E c \in Apps, d \in Devices :
        /\ nops = 0
        /\ redis = EmptyRedis
        /\ redis' = Run(CreateSessionFrame("u1", c, create_refresh_token("u1", c, Nil, now),
                                           single_session(c), d),
                        redis, db, now).r
        /\ UNCHANGED <<db, now, uuid, last, procs, nops>>

XCreateSession ==
    \E p \in Procs, c \in Apps, d \in Devices :
        /\ Start(p, CreateSessionFrame("u1", c, create_refresh_token("u1", c, Nil, now),
                                       single_session(c), d))
        /\ UNCHANGED uuid

XDeleteClientSessions ==
    \E p \in Procs, c \in Apps :
        Start(p, DeleteClientSessionsFrame("u1", c)) /\ UNCHANGED uuid

XDeleteAllSessions ==
    \E p \in Procs : Start(p, DeleteAllSessionsFrame("u1")) /\ UNCHANGED uuid

NextRace ==
    \/ XSeed
    \/ XCreateSession
    \/ XDeleteClientSessions
    \/ XDeleteAllSessions
    \/ RStep

SpecRace == Init /\ [][NextRace]_vars

(***************************************************************************)
(* A login racing with validations: after one login that ran alone, a      *)
(* second login and validate_sso_token calls advance by one Redis command  *)
(* at a time.  The clock stands still.  A finished call keeps its frame.   *)
(***************************************************************************)
NextSsoRace ==
    \/ RLogin
    \/ CLogin
    \/ CValidateSsoToken
    \/ RStep

SpecSsoRace == Init /\ [][NextSsoRace]_vars

(***************************************************************************)
(* Listing: logins, device logouts and the clock as in Spec, and the two    *)
(* enumerations of SessionService.  An observed enumeration keeps the list  *)
(* it returned in last.found.                                               *)
(***************************************************************************)
ListDo(f) ==
    /\ nops < MaxOps
    /\ last = IdleFrame
    /\ LET o == Run(f, redis, db, now)
       IN  /\ redis' = o.r
           /\ last' = [Result(o.l) EXCEPT !.found = o.l.found]
    /\ nops' = nops + 1
    /\ UNCHANGED <<db, now, uuid, procs>>

GetClientSessions ==
    \E u \in Users, c \in Apps : ListDo(GetClientSessionsFrame(u, c))

GetAllSessions == \E u \in Users : ListDo(GetAllSessionsFrame(u))

NextList ==
    \/ Tick
    \/ Login
    \/ LogoutClientDevice
    \/ GetClientSessions
    \/ GetAllSessions

SpecList == Init /\ [][NextList]_vars

(***************************************************************************)
(* Properties.                                                             *)
(***************************************************************************)
\* device keys under which (u, c) holds a primary record
SessionsOf(r, u, c) == {d \in DevKeys : r.session[<<u, c, d>>] # NoRec}

\* the client a refresh token is looked up under
RefreshClient(tok) == IF tok.client_id # Nil THEN tok.client_id ELSE SSO_PORTAL

\* would refresh_token(tok, d) succeed in the current state
RefreshAccepts(tok, d) == Run(RefreshFrame(tok, d), redis, db, now).l.ok

\* the user validate_sso_token(s) yields in the current state, Nil for None
SsoUser(s) ==
    LET x == Run(ValidateSsoFrame(s), redis, db, now).l.sess
    IN  IF x = NoRec THEN Nil ELSE x.user_id

\* create_session was entered by the observed login or exchange
CsCalled(l) == l.op \in {"login", "exchange"} /\ l.client # Nil /\ l.rt # NoTok

\* C1: refresh_token accepts a token T for (user, client, device) only if at
\* the moment of validation session:{user}:{client}:{device} exists and its
\* refresh_token_hash is SHA-256(T); otherwise it fails with 401, signs no
\* token and writes nothing.
C1_RefreshNeedsMatchingSession ==
    [][ (last.op = "none" /\ last'.op = "refresh") =>
            LET k == <<last'.tok.sub, RefreshClient(last'.tok), last'.device>>
                matches == /\ redis.session[k] # NoRec
                           /\ redis.session[k].refresh_token_hash = _hash_token(last'.tok)
            IN  /\ last'.ok => matches
                /\ ~matches => /\ ~last'.ok
                               /\ Status(last'.err) = 401
                               /\ last'.rt = NoTok
                               /\ last'.at = NoTok
                               /\ redis' = redis ]_vars

C1_Witness == last.op = "refresh" /\ last.ok /\ last.rt # NoTok

\* C2: after a successful refresh_token(T_old, device) returning T_new, a
\* further refresh with T_old and the same device fails and a refresh with
\* T_new and the same device succeeds.
C2_RefreshRotates ==
    (last.op = "refresh" /\ last.ok) =>
        /\ ~RefreshAccepts(last.tok, last.device)
        /\ RefreshAccepts(last.rt, last.device)

\* C3: once logout_all(u) has completed, no key session:{u}:*:* exists, no
\* SSO token validates for u and no refresh token of u is accepted.
C3_LogoutAllInvalidatesEverything ==
    (last.op = "logout_all" /\ last.ok) =>
        /\ \A k \in SessionKeys : k[1] = last.user => redis.session[k] = NoRec
        /\ \A s \in SsoTokens : SsoUser(s) # last.user
        /\ \A tok \in RefreshTokens(now), d \in Devices :
                tok.sub = last.user => ~RefreshAccepts(tok, d)

\* C4: for a single_session application at most one key session:{u}:{code}:*
\* exists per user, in every state of every interleaving of logins and
\* SSO exchanges.
C4_SingleSessionAtMostOne ==
    \A u \in Users, c \in Apps :
        single_session(c) => Cardinality(SessionsOf(redis, u, c)) <= 1

\* C5: create_session with single_session=true for device D2, while (user,
\* client) holds a live session on another device D1, fails with
\* AlreadyLoggedInElsewhere (400), creates no session for D2 and leaves D1's
\* record and both index sets unchanged.
C5_SingleSessionRejectsOtherDevice ==
    [][ \A d1 \in Devices :
            ( /\ last.op = "none"
              /\ CsCalled(last')
              /\ last'.single
              /\ last'.device \in Devices \ {d1}
              /\ redis.session[<<last'.user, last'.client, d1>>] # NoRec )
            => /\ last'.err = "AlreadyLoggedInElsewhere"
               /\ Status(last'.err) = 400
               /\ redis'.session = redis.session
               /\ redis'.client_sessions = redis.client_sessions
               /\ redis'.user_sessions = redis.user_sessions ]_vars

\* C6: create_session for a triple that already holds a session succeeds for
\* both values of single_session and replaces it: the record exists with the
\* hash of the newly supplied token, the device is in both indexes, and the
\* refresh token of the replaced session is no longer accepted.
C6_SameDeviceReplaces ==
    [][ ( /\ last.op = "none"
          /\ CsCalled(last')
          /\ (last'.pc = "lg_resign" \/ last'.err # Nil)
          /\ last'.device \in Devices
          /\ redis.session[<<last'.user, last'.client, last'.device>>] # NoRec )
        => LET u == last'.user
               c == last'.client
               d == last'.device
           IN  /\ last'.pc = "lg_resign"
               /\ redis'.session[<<u, c, d>>] # NoRec
               /\ redis'.session[<<u, c, d>>].refresh_token_hash = _hash_token(last'.rt)
               /\ d \in redis'.client_sessions[<<u, c>>].mem
               /\ <<c, d>> \in redis'.user_sessions[u].mem
               /\ \A tok \in RefreshTokens(now) :
                     _hash_token(tok) = redis.session[<<u, c, d>>].refresh_token_hash
                        => ~validate_refresh_token(redis', u, c, d, tok) ]_vars

\* C7: create_session with single_session=false for a new device, while
\* (user, client) holds MAX_ACTIVE_SESSIONS live sessions, evicts the session
\* with the oldest last_activity (record and both index entries) and keeps
\* every other session.
C7_EvictsOldestAtCap ==
    [][ ( /\ last.op = "none"
          /\ CsCalled(last')
          /\ last'.pc = "lg_resign"
          /\ ~last'.single
          /\ last'.device \in Devices
          /\ SessionsOf(redis, last'.user, last'.client) \subseteq Devices \ {last'.device}
          /\ Cardinality(SessionsOf(redis, last'.user, last'.client)) = MAX_ACTIVE_SESSIONS )
        => LET u == last'.user
               c == last'.client
               S == SessionsOf(redis, u, c)
           IN  \E old \in S :
                  /\ \A x \in S : redis.session[<<u, c, old>>].last_activity
                                     <= redis.session[<<u, c, x>>].last_activity
                  /\ redis'.session[<<u, c, old>>] = NoRec
                  /\ old \notin redis'.client_sessions[<<u, c>>].mem
                  /\ <<c, old>> \notin redis'.user_sessions[u].mem
                  /\ \A x \in S \ {old} :
                        redis'.session[<<u, c, x>>] = redis.session[<<u, c, x>>] ]_vars

C9_SsoStoreInvariant ==
    Quiescent =>
        \A u \in Users :
            redis.sso[u] # NoRec =>
                {h \in SsoHashes : redis.sso_token[h] # NoRec /\ redis.sso_token[h].user_id = u}
                    = {redis.sso[u].token_hash}

\* C10: a successful exchange_sso_token does not rotate the SSO session: the
\* token hash in sso:{u} and the reverse keys are the same before and after,
\* the outcome carries the sso_token that was presented, and that token
\* still validates.
C10_ExchangeKeepsSso ==
    [][ (last.op = "none" /\ last'.op = "exchange" /\ last'.ok) =>
            /\ redis.sso[last'.user] # NoRec
            /\ redis'.sso[last'.user] # NoRec
            /\ redis'.sso[last'.user].token_hash = redis.sso[last'.user].token_hash
            /\ redis'.sso_token = redis.sso_token
            /\ last'.sso_tok = last'.sso_in
            /\ Run(ValidateSsoFrame(last'.sso_in), redis', db', now').l.sess # NoRec ]_vars

C10_Witness == last.op = "exchange" /\ last.ok /\ last.sso_tok = last.sso_in /\ last.sso_tok > 0

\* C11: after a successful login of u, validate_sso_token succeeds for the
\* SSO token the login returned and fails for every SSO token handed out by
\* an earlier login.
C11_LoginReplacesSso ==
    (last.op = "login" /\ last.ok) =>
        /\ SsoUser(last.sso_tok) = last.user
        /\ \A s \in 1..(last.sso_tok - 1) : SsoUser(s) # last.user

C11_Witness ==
    /\ last.op = "login"
    /\ last.ok
    /\ last.sso_tok > 1
    /\ redis.sso_token[_hash_token(last.sso_tok)] # NoRec

\* outcome of verify_access_token(T) against the stores r
VerifyOutcome(T, r) ==
    LET l == Run(VerifyAccessFrame(T), r, db, now).l
    IN  <<l.ok, l.err, l.user, l.apps>>

\* C12: verify_access_token(T) gives the same result whatever the session
\* store and the SSO store hold; a token that has not reached its exp still
\* verifies after logout_all.
C12_AccessTokenIgnoresStores ==
    \A T \in AccessTokens(now) :
        /\ VerifyOutcome(T, redis) = VerifyOutcome(T, EmptyRedis)
        /\ (last.op = "logout_all" /\ now < T.exp) => VerifyOutcome(T, redis)[1]

C12_Witness ==
    /\ last.op = "logout_all"
    /\ last.ok
    /\ uuid > 1
    /\ \A k \in SessionKeys : redis.session[k] = NoRec
    /\ \E T \in AccessTokens(now) : T.iat = now /\ VerifyOutcome(T, redis)[1]

\* C13: every access token issued by login, SSO exchange or refresh that
\* carries client_id = c and allowed_apps = A has c in A or c = "sso_portal",
\* also when an administrator changed the user's grants or an application's
\* active flag before the refresh.
C13_ClientAmongAllowedApps ==
    (/\ last.op \in {"login", "exchange", "refresh"}
     /\ last.ok
     /\ last.at # NoTok
     /\ last.at.client_id # Nil)
    => \/ last.at.client_id \in last.at.allowed_apps
       \/ last.at.client_id = SSO_PORTAL

\* C14: verify_token rejects every token whose type claim differs from the
\* expected type: access verification never accepts a refresh token and
\* refresh_token never accepts an access token.
C14_TokenTypeEnforced ==
    /\ \A T \in AccessTokens(now) \cup RefreshTokens(now), ty \in {"access", "refresh"} :
            T.type # ty => ~verify_token(T, ty, now)
    /\ (last.op = "verify_access" /\ last.tok.type # "access") =>
            ~last.ok /\ Status(last.err) = 401
    /\ (last.op = "refresh" /\ last.tok.type # "refresh") =>
            ~last.ok /\ Status(last.err) = 401 /\ last.at = NoTok /\ last.rt = NoTok

C14_Witness ==
    /\ last.op = "verify_access"
    /\ last.tok.type = "refresh"
    /\ ~(last.tok.exp < now)
    /\ ~last.ok

\* lifetime a token of each type is signed with
Lifetime(T) ==
    IF T.type = "access" THEN ACCESS_TOKEN_EXPIRE_MINUTES ELSE REFRESH_TOKEN_EXPIRE_DAYS

\* C15: a token issued at t0 with lifetime L is rejected by verify_token at
\* every time t >= t0 + L, t = t0 + L included.
C15_RejectedFromLifetimeOn ==
    \A T \in AccessTokens(now) \cup RefreshTokens(now) :
        now >= T.iat + Lifetime(T) => ~verify_token(T, T.type, now)

\* C17: exchange_sso_token with a valid SSO token for an existing active
\* application the user has no grant for fails with AppNotPermitted (403)
\* and creates no session record and no index entry.
C17_ExchangeNeedsGrant ==
    [][ ( /\ last.op = "none"
          /\ last'.op = "exchange"
          /\ SsoUser(last'.sso_in) # Nil
          /\ ~db.deleted[SsoUser(last'.sso_in)]
          /\ last'.client \in Apps
          /\ db.active[last'.client]
          /\ last'.client \notin db.allowed[SsoUser(last'.sso_in)] )
        => /\ ~last'.ok
           /\ last'.err = "AppNotPermitted"
           /\ Status(last'.err) = 403
           /\ last'.at = NoTok
           /\ last'.rt = NoTok
           /\ redis'.session = redis.session
           /\ redis'.client_sessions = redis.client_sessions
           /\ redis'.user_sessions = redis.user_sessions ]_vars

C17_Witness == last.op = "exchange" /\ last.err = "AppNotPermitted" /\ last.sess # NoRec

\* C16: refresh_token(T, device) where T carries a device_id claim different
\* from the caller's device fails with 401 (device mismatch), signs no token
\* and changes no session: the record of T's own session is as before, so T
\* is accepted with its own device id exactly as it was before the call.
C16_DeviceMismatchRejected ==
    [][ ( /\ last.op = "none" /\ last'.op = "refresh"
          /\ verify_token(last'.tok, "refresh", now)
          /\ Claim(last'.tok, "device_id", Nil) # Nil
          /\ last'.tok.device_id # last'.device ) =>
            LET T == last'.tok
                k == <<T.sub, RefreshClient(T), T.device_id>>
            IN  /\ ~last'.ok
                /\ Status(last'.err) = 401
                /\ last'.rt = NoTok /\ last'.at = NoTok
                /\ redis' = redis
                /\ redis'.session[k] = redis.session[k]
                /\ Run(RefreshFrame(T, T.device_id), redis', db, now).l.ok
                       = Run(RefreshFrame(T, T.device_id), redis, db, now).l.ok ]_vars

\* a live token of device d1 was presented with another device, and is
\* still accepted with d1
C16_Witness ==
    /\ last.op = "refresh" /\ last.err = "DeviceMismatch"
    /\ last.tok.device_id # last.device
    /\ RefreshAccepts(last.tok, last.tok.device_id)

LogoutOps == {"logout_all", "logout_sso", "logout_client", "logout_client_device"}

\* the call an observed logout was, with the same arguments
LogoutFrameOf(l) ==
    CASE l.op = "logout_all" -> LogoutAllFrame(l.user)
      [] l.op = "logout_sso" -> LogoutSsoFrame(l.user)
      [] l.op = "logout_client" -> LogoutClientFrame(l.user, l.client)
      [] OTHER -> LogoutClientDeviceFrame(l.user, l.client, l.device)

\* C18: each logout variant (logout_all, logout_sso, logout_client,
\* logout_client_device) is idempotent: it succeeds whether or not a matching
\* session exists, and a second call with the same arguments leaves the
\* session store and the SSO store exactly as the first call left them and
\* returns the same result.
C18_LogoutIdempotent ==
    last.op \in LogoutOps =>
        LET again == Run(LogoutFrameOf(last), redis, db, now)
        IN  /\ last.ok /\ last.err = Nil
            /\ again.r = redis
            /\ again.l.ok = last.ok /\ again.l.err = last.err

\* a logout was the very first request, so nothing was there for it to
\* delete, and it succeeded
C18_Witness ==
    /\ last.op \in LogoutOps /\ last.ok
    /\ nops = 1
    /\ redis = EmptyRedis

\* C19: logout_sso(u) deletes u's SSO session, so that every SSO token
\* issued to u so far fails validation and SSO exchange, and leaves no
\* session of u under "sso_portal" (the handlers never create one unless
\* an application carries that code); every session of u under another
\* client, with its index entries, is unchanged and a refresh on it succeeds
\* exactly as before.
C19_LogoutSsoFrame ==
    [][ (last.op = "none" /\ last'.op = "logout_sso") =>
            LET u == last'.user
            IN  /\ last'.ok
                /\ redis'.sso[u] = NoRec
                /\ \A s \in 1..(uuid - 1) :
                      /\ Run(ValidateSsoFrame(s), redis', db, now).l.sess = NoRec
                      /\ \A c \in Apps, d \in Devices :
                            ~Run(ExchangeFrame(s, c, d), redis', db, now).l.ok
                /\ SessionsOf(redis', u, SSO_PORTAL) = {}
                /\ \A k \in SessionKeys :
                      (k[1] = u /\ k[2] # SSO_PORTAL) => redis'.session[k] = redis.session[k]
                /\ \A k \in ClientKeys :
                      (k[1] = u /\ k[2] # SSO_PORTAL) =>
                          redis'.client_sessions[k] = redis.client_sessions[k]
                /\ redis'.user_sessions[u] = redis.user_sessions[u]
                /\ \A tok \in RefreshTokens(now), d \in Devices :
                      tok.client_id # Nil =>
                          Run(RefreshFrame(tok, d), redis', db, now).l.ok
                              = Run(RefreshFrame(tok, d), redis, db, now).l.ok ]_vars

\* an SSO logout of a user who had logged in, with an application session
\* left on which a refresh succeeds
C19_Witness ==
    /\ last.op = "logout_sso" /\ last.ok
    /\ uuid > 1
    /\ redis.sso[last.user] = NoRec
    /\ \E tok \in RefreshTokens(now), d \in Devices :
          tok.sub = last.user /\ tok.client_id # Nil /\ RefreshAccepts(tok, d)

\* C20: logout_client(u, c) removes every primary record session:{u}:{c}:*
\* and the matching entries of both indexes, and leaves the SSO session of
\* u, every session of u under another client and every key of other users
\* unchanged; logout_client_device(u, c, d) does the same for the single
\* triple (u, c, d).
C20_LogoutClientFrame ==
    [][ (last.op = "none" /\ last'.op \in {"logout_client", "logout_client_device"}) =>
            LET u == last'.user
                c == last'.client
                hit(k) == /\ k[1] = u /\ k[2] = c
                          /\ (last'.op = "logout_client_device" => k[3] = last'.device)
                inClient(r, k) == k[3] \in r.client_sessions[<<k[1], k[2]>>].mem
                inUser(r, k) == <<k[2], k[3]>> \in r.user_sessions[k[1]].mem
            IN  /\ last'.ok
                /\ \A k \in SessionKeys :
                      IF hit(k)
                      THEN /\ redis'.session[k] = NoRec
                           /\ ~inClient(redis', k)
                           /\ ~inUser(redis', k)
                      ELSE /\ redis'.session[k] = redis.session[k]
                           /\ inClient(redis', k) = inClient(redis, k)
                           /\ inUser(redis', k) = inUser(redis, k)
                /\ redis'.sso = redis.sso
                /\ redis'.sso_token = redis.sso_token ]_vars

\* C21: create_session called without a device_id assigns a fresh device
\* id: the login or SSO exchange that called it succeeds and returns a
\* non-null device id, and the session record and both index entries are
\* stored under that id.
C21_FreshDeviceId ==
    (CsCalled(last) /\ last.pc = "done" /\ last.err # "AlreadyLoggedInElsewhere") =>
        /\ last.ok
        /\ last.device \in Devices
        /\ redis.session[_session_key(last.user, last.client, last.device)] # NoRec
        /\ last.device \in redis.client_sessions[_client_sessions_key(last.user, last.client)].mem
        /\ <<last.client, last.device>> \in redis.user_sessions[last.user].mem

\* C22: after a successful login or SSO exchange with client_id c, the
\* returned refresh token carries client_id = c and the device_id of the
\* outcome, the key session:{u}:{c}:{device_id} exists, and its stored hash
\* is SHA-256 of the returned refresh token, not of the provisional one
\* signed before create_session.
C22_FinalTokenStored ==
    (last.op \in {"login", "exchange"} /\ last.ok /\ last.client # Nil) =>
        LET k == _session_key(last.user, last.client, last.device)
        IN  /\ last.rt # NoTok
            /\ last.rt.client_id = last.client
            /\ last.rt.device_id = last.device
            /\ last.device # Nil
            /\ redis.session[k] # NoRec
            /\ redis.session[k].refresh_token_hash = _hash_token(last.rt)
            /\ redis.session[k].refresh_token_hash
                  # _hash_token(create_refresh_token(last.user, last.client, Nil, last.rt.iat))

\* a login and an SSO exchange with a client have each succeeded
C22_Witness ==
    /\ last.op = "exchange" /\ last.ok /\ last.client \in Apps
    /\ redis.session[_session_key(last.user, last.client, last.device)] # NoRec

\* C23: a login without client_id creates or replaces the SSO session and
\* nothing else: every session:*, client_sessions:* and user_sessions:* key
\* is unchanged, the access and refresh tokens carry no client_id and no
\* device_id, and the outcome has no device_id.
C23_SsoOnlyLogin ==
    [][ (last.op = "none" /\ last'.op = "login" /\ last'.client = Nil /\ last'.ok) =>
            /\ redis'.session = redis.session
            /\ redis'.client_sessions = redis.client_sessions
            /\ redis'.user_sessions = redis.user_sessions
            /\ redis'.sso[last'.user] # NoRec
            /\ redis'.sso[last'.user].token_hash = _hash_token(last'.sso_tok)
            /\ redis'.sso_token[_hash_token(last'.sso_tok)] # NoRec
            /\ last'.at.client_id = Nil
            /\ Claim(last'.at, "device_id", Nil) = Nil
            /\ last'.rt.client_id = Nil
            /\ last'.rt.device_id = Nil
            /\ last'.device_out = Nil ]_vars

\* an SSO-only login that named a device replaced an earlier SSO session
\* while an application session existed
C23_Witness ==
    /\ last.op = "login" /\ last.ok /\ last.client = Nil /\ last.device # Nil
    /\ last.sso_tok > 1
    /\ \E k \in SessionKeys : redis.session[k] # NoRec

AuthPaths == {"email_login", "google_login", "exchange", "refresh"}

\* C24: no authentication path (email login, Google callback, SSO exchange,
\* refresh) succeeds for a user whose status is "deleted" or whose
\* deleted_at is set, whichever of the two holds.
C24_NoDeletedUser ==
    (last.op \in AuthPaths /\ last.ok) =>
        /\ db.status[last.user] # "deleted"
        /\ ~db.deleted[last.user]

\* the login of p has not yet returned from create_sso_session
InCreate(p) ==
    /\ procs[p].op = "login"
    /\ procs[p].pc \in {"lg_gate", "sso_c_get", "sso_d_get", "sso_d_deltok",
                         "sso_d_delsso", "sso_c_setsso", "sso_c_settok"}

\* C25: under every interleaving of concurrent logins of one user with
\* validate_sso_token calls, once a later create_sso_session for u has
\* completed, validate_sso_token does not succeed for an SSO token that an
\* earlier create issued to u.  The earlier create is one that both began
\* and returned before the later one did.
C25_NoStaleSsoToken ==
    last.op = "login" =>
        \A s \in 1..(uuid - 1) :
            (s < last.sso_tok /\ \A p \in Procs : ~(InCreate(p) /\ procs[p].fresh = s))
                => SsoUser(s) # last.user

\* both requests are refreshes of the same token that have succeeded
BothRefreshed ==
    /\ \A p \in Procs : procs[p].op = "refresh" /\ procs[p].pc = "done" /\ procs[p].ok
    /\ procs["p1"].tok = procs["p2"].tok

\* C26: when two refreshes presenting the same valid refresh token for the
\* same (user, client, device) have both succeeded, the stored hash is that
\* of the token issued by the refresh whose update_session wrote last, and
\* both the original token and the token issued by the other refresh are
\* rejected by a later refresh.
C26_LastWriterWins ==
    BothRefreshed =>
        LET T == procs["p1"].tok
            k == _session_key(T.sub, RefreshClient(T), "d1")
        IN  (redis.session[k] # NoRec) =>
                /\ redis.session[k].refresh_token_hash = _hash_token(last.rt)
                /\ ~RefreshAccepts(T, "d1")
                /\ \E p \in Procs :
                      /\ procs[p] = last
                      /\ \A q \in Procs \ {p} : ~RefreshAccepts(procs[q].rt, "d1")

\* keys of the bindings that exist
Bindings(d) == {k \in BindingKeys : d.binding[k] # NoRec}

\* C27: the identity resolver never creates a user.  In the Google path it
\* uses the user of an existing (provider, subject id) binding, else links a
\* new binding to the existing user found by email, else fails with
\* UserNotRegistered and creates neither a user nor a binding; the password
\* path creates neither.
C27_ResolverCreatesNoUser ==
    [][ (last.op = "none" /\ last'.op \in {"email_login", "google_login"}) =>
            /\ db'.users = db.users
            /\ last'.op = "email_login" => Bindings(db') = Bindings(db)
            /\ last'.op = "google_login" =>
                  LET g == last'.cred[1]
                      e == last'.cred[2]
                      b == get_by_provider_user_id(db, "google", g)
                      byEmail == IF e = Nil THEN Nil ELSE get_by_email(db, e)
                  IN  IF b # NoRec
                      THEN /\ last'.user = b.user_id
                           /\ Bindings(db') = Bindings(db)
                      ELSE IF byEmail # Nil
                      THEN /\ last'.user = byEmail
                           /\ last'.ok =>
                                 /\ Bindings(db') = Bindings(db) \cup {<<"google", g>>}
                                 /\ db'.binding[<<"google", g>>].user_id = byEmail
                           /\ Bindings(db') \subseteq Bindings(db) \cup {<<"google", g>>}
                      ELSE /\ ~last'.ok
                           /\ last'.err = "UserNotRegistered"
                           /\ Status(last'.err) = 401
                           /\ db' = db
                           /\ redis' = redis ]_vars

\* a Google login has linked a new binding to the user found by email
C27_Witness ==
    /\ last.op = "google_login" /\ last.ok
    /\ db.binding[<<"google", last.cred[1]>>] # NoRec
    /\ db.binding[<<"google", last.cred[1]>>].last_used_at = -1
    /\ db.users = Users

\* the cause, if any, for which the password path refuses (email, password)
FailureCause(d, email, password) ==
    LET b == get_by_provider_user_id(d, "email", email)
    IN  IF get_by_email(d, email) = Nil THEN "no user"
        ELSE IF b = NoRec THEN "no binding"
        ELSE IF b.password_hash = NoHash THEN "no hash"
        ELSE IF ~verify_password(password, b.password_hash) THEN "mismatch"
        ELSE Nil

\* C28: in the password path the failure causes (no user with that email,
\* no email binding or no stored hash, password mismatch) are
\* indistinguishable to the caller: each yields the same InvalidCredentials
\* error with the same status, and none changes the session store, the SSO
\* store or the binding's last_used_at.
C28_SameInvalidCredentials ==
    [][ ( /\ last.op = "none" /\ last'.op = "email_login"
          /\ FailureCause(db, last'.cred[1], last'.cred[2]) # Nil ) =>
            /\ ~last'.ok
            /\ last'.err = "InvalidCredentials"
            /\ Status(last'.err) = 401
            /\ last' = [EmailLoginFrame(last'.cred[1], last'.cred[2], last'.client,
                                         last'.device, last'.fresh)
                            EXCEPT !.pc = "done", !.err = "InvalidCredentials"]
            /\ redis' = redis
            /\ db' = db ]_vars

\* a login was refused because the email binding stores no hash
C28_Witness ==
    /\ last.op = "email_login" /\ ~last.ok
    /\ FailureCause(db, last.cred[1], last.cred[2]) = "no hash"

\* the access gate's verdict on user u asking for client c
GateError(d, u, c) ==
    IF c = Nil THEN Nil
    ELSE IF c \notin Apps \/ ~d.active[c] THEN "AppNotFound"
    ELSE IF c \notin d.allowed[u] THEN "AppNotPermitted"
    ELSE Nil

\* C29: within one login the steps run in the order identity resolution,
\* access gate, SSO-session create, signing, session create, session update.
\* So a login whose identity resolved and which the access gate rejects
\* (AppNotFound for an unknown or inactive application, AppNotPermitted for
\* one the user is not assigned to) creates or replaces no SSO session and no
\* application session; a login the gate lets through has created the SSO
\* session it reports before anything later can fail.
C29_GateBeforeSessions ==
    [][ ( /\ last.op = "none" /\ last'.op \in {"email_login", "google_login"}
          /\ last'.user # Nil ) =>
            LET e == GateError(db, last'.user, last'.client)
            IN  IF e # Nil
                THEN /\ ~last'.ok
                     /\ last'.err = e
                     /\ Status(e) = IF e = "AppNotFound" THEN 404 ELSE 403
                     /\ last'.sso_tok = 0 /\ last'.rt = NoTok /\ last'.at = NoTok
                     /\ redis' = redis
                ELSE /\ last'.err \notin {"AppNotFound", "AppNotPermitted"}
                     /\ last'.sso_tok # 0
                     /\ redis'.sso[last'.user] # NoRec
                     /\ redis'.sso[last'.user].token_hash = _hash_token(last'.sso_tok) ]_vars

\* the gate refused a resolved user who already holds an SSO session and an
\* application session
C29_Witness ==
    /\ last.op \in {"email_login", "google_login"} /\ last.user # Nil
    /\ last.err \in {"AppNotFound", "AppNotPermitted"}
    /\ redis.sso[last.user] # NoRec
    /\ \E k \in SessionKeys : redis.session[k] # NoRec

\* C30: every write to a session (create_session and update_session) resets
\* the TTL of the primary record and of both index keys to the full session
\* TTL, so an index key never expires while a primary record it indexes is
\* still live: each live record of a named device is listed in its client
\* index and in its user index, and neither index key expires before it.
C30_IndexOutlivesRecord ==
    \A k \in SessionKeys :
        (redis.session[k] # NoRec /\ k[3] \in Devices) =>
            LET ci == redis.client_sessions[_client_sessions_key(k[1], k[2])]
                ui == redis.user_sessions[k[1]]
            IN  /\ k[3] \in ci.mem
                /\ <<k[2], k[3]>> \in ui.mem
                /\ ci.exp >= redis.session[k].exp
                /\ ui.exp >= redis.session[k].exp

\* index entries of (u, c), respectively of u, whose primary record is missing
StaleClientEntries(r, u, c) ==
    {m \in r.client_sessions[_client_sessions_key(u, c)].mem :
        r.session[<<u, c, m>>] = NoRec}
StaleUserEntries(r, u) ==
    {m \in r.user_sessions[u].mem : r.session[<<u, m[1], m[2]>>] = NoRec}

\* C31: enumeration is self-healing: get_client_sessions and get_all_sessions
\* return exactly the sessions whose index entry and primary record both
\* exist, and after an enumeration has returned, every index entry it found
\* whose primary record was missing has been removed from the index.
C31_EnumerationSelfHealing ==
    [][ (last.op = "none" /\ last'.op \in {"get_client_sessions", "get_all_sessions"}) =>
            LET u == last'.user
                c == last'.client
            IN  IF last'.op = "get_client_sessions"
                THEN /\ last'.found =
                          {redis.session[<<u, c, m>>] :
                              m \in redis.client_sessions[_client_sessions_key(u, c)].mem
                                      \ StaleClientEntries(redis, u, c)}
                     /\ redis'.client_sessions[_client_sessions_key(u, c)].mem
                          \cap StaleClientEntries(redis, u, c) = {}
                ELSE /\ last'.found =
                          {redis.session[<<u, m[1], m[2]>>] :
                              m \in redis.user_sessions[u].mem \ StaleUserEntries(redis, u)}
                     /\ redis'.user_sessions[u].mem \cap StaleUserEntries(redis, u) = {} ]_vars

\* C32: a successful validate_sso_token updates last_activity of sso:{u}
\* without extending its lifetime: the remaining TTL of sso:{u} after the
\* call is never greater than it was before the call, and the TTL of the
\* reverse key sso_token:{h} is unchanged.
C32_ValidateKeepsTtl ==
    [][ (last.op = "none" /\ last'.op = "validate_sso" /\ last'.sess # NoRec) =>
            LET u == last'.sess.user_id
                h == _hash_token(last'.sso_in)
            IN  /\ redis.sso[u] # NoRec /\ redis'.sso[u] # NoRec
                /\ redis'.sso[u].last_activity = now
                /\ redis'.sso[u].exp - now <= redis.sso[u].exp - now
                /\ redis'.sso[u].token_hash = redis.sso[u].token_hash
                /\ redis'.sso_token[h] = redis.sso_token[h]
                /\ redis.sso_token[h] # NoRec ]_vars

\* a token was validated when less than the full lifetime remained
C32_Witness ==
    /\ last.op = "validate_sso" /\ last.sess # NoRec
    /\ redis.sso[last.sess.user_id] # NoRec
    /\ redis.sso[last.sess.user_id].last_activity = now
    /\ redis.sso[last.sess.user_id].exp - now < SSO_TTL

\* C33: no orphan reverse pointer is ever observable: in every reachable
\* state, the intermediate states of delete_sso_session and
\* create_sso_session under any interleaving of creates, deletes and
\* validations included, whenever a key sso_token:{h} mapping to u exists,
\* the record sso:{u} exists too.
C33_NoOrphanReversePointer ==
    \A h \in SsoHashes :
        redis.sso_token[h] # NoRec => redis.sso[redis.sso_token[h].user_id] # NoRec

\* the user for whom SSO token s validates in store r at time t, if any
SsoUserIn(r, s, t) ==
    LET x == Run(ValidateSsoFrame(s), r, db, t).l.sess
    IN  IF x = NoRec THEN Nil ELSE x.user_id

\* C34: a login or SSO exchange that fails inside create_session with the
\* single-session conflict (AlreadyLoggedInElsewhere) leaves the SSO store
\* unchanged: the token hash of sso:{u} and the reverse keys are what they
\* were, and the SSO token the user held before the failed attempt still
\* validates afterwards.
C34_ConflictKeepsSso ==
    [][ ( /\ last.op = "none" /\ last'.op \in {"login", "exchange"}
          /\ last'.err = "AlreadyLoggedInElsewhere" ) =>
            LET u == last'.user
            IN  /\ (redis.sso[u] = NoRec) = (redis'.sso[u] = NoRec)
                /\ redis.sso[u] # NoRec =>
                      redis'.sso[u].token_hash = redis.sso[u].token_hash
                /\ redis'.sso_token = redis.sso_token
                /\ \A s \in SsoTokens :
                      SsoUserIn(redis, s, now) = u => SsoUserIn(redis', s, now) = u ]_vars

\* C35: a logout is not undone by a refresh racing with it: once
\* logout_client_device(u, c, d), logout_client(u, c) or logout_all(u) has
\* completed and every refresh that was in flight for (u, c, d) has
\* finished, the key session:{u}:{c}:{d} does not exist and no refresh token
\* for that triple is accepted.
C35_LogoutNotUndoneByRefresh ==
    ( /\ Quiescent
      /\ \E p \in Procs :
            /\ procs[p].pc = "done" /\ procs[p].ok
            /\ procs[p].op \in {"logout_client_device", "logout_client", "logout_all"} ) =>
        /\ redis.session[_session_key("u1", "hris", "d1")] = NoRec
        /\ \A tok \in RefreshTokens(now) :
              (tok.sub = "u1" /\ tok.client_id = "hris" /\ tok.device_id = "d1")
                  => ~RefreshAccepts(tok, "d1")

\* C36: a create_session racing with delete_client_sessions or
\* delete_all_sessions for the same user never leaves an unindexed session:
\* in every quiescent state after such an interleaving, each existing
\* primary record session:{u}:{c}:{d} is still listed in both
\* client_sessions:{u}:{c} and user_sessions:{u}.
C36_RaceLeavesNoUnindexedSession ==
    ( /\ Quiescent
      /\ \E p, q \in Procs :
            /\ procs[p].pc = "done" /\ procs[p].op = "create_session"
            /\ procs[q].pc = "done"
            /\ procs[q].op \in {"delete_client_sessions", "delete_all_sessions"} ) =>
        \A k \in SessionKeys :
            redis.session[k] # NoRec =>
                /\ k[3] \in redis.client_sessions[_client_sessions_key(k[1], k[2])].mem
                /\ <<k[2], k[3]>> \in redis.user_sessions[k[1]].mem

\* C37: the SSO token returned by a completed login of user u validates
\* afterwards for as long as no later login, SSO refresh, logout or expiry
\* for u has occurred, even when validate_sso_token calls on older tokens of
\* u ran concurrently with that login.
C37_NewSsoTokenSurvivesValidators ==
    \A p \in Procs :
        ( /\ Quiescent
          /\ procs[p].op = "login" /\ procs[p].pc = "done" /\ procs[p].ok
          /\ \A q \in Procs \ {p} : procs[q].op \in {"none", "validate_sso"} ) =>
            SsoUser(procs[p].sso_tok) = procs[p].user

\* C38: for an application with single_session = false, in every state
\* reached by any sequence of completed logins, SSO exchanges, refreshes and
\* logouts, the number of live sessions per (user, client) never exceeds
\* MAX_ACTIVE_SESSIONS.
C38_SessionCap ==
    \A u \in Users, c \in Apps :
        ~single_session(c) =>
            Cardinality({d \in Devices : redis.session[_session_key(u, c, d)] # NoRec})
                <= MAX_ACTIVE_SESSIONS

\* C39: a refresh token issued by an SSO-only login (no client_id) is never
\* accepted by refresh_token, for any caller-supplied device id: refresh
\* maps it to client "sso_portal", and, no application with code
\* "sso_portal" existing, no flow ever creates a session under that client.
C39_SsoOnlyRefreshTokenRejected ==
    [][ /\ \A k \in SessionKeys : k[2] = SSO_PORTAL => redis'.session[k] = NoRec
        /\ \A u \in Users : redis'.client_sessions[_client_sessions_key(u, SSO_PORTAL)].mem = {}
        /\ ( /\ last.op = "none" /\ last'.op = "refresh"
              /\ last'.tok.client_id = Nil /\ last'.tok.device_id = Nil ) =>
                /\ ~last'.ok
                /\ last'.err \in {"InvalidToken", "InvalidSession"}
                /\ Status(last'.err) = 401
                /\ last'.rt = NoTok /\ last'.at = NoTok
                /\ redis' = redis ]_vars

\* the refresh token of an SSO-only login was presented, unexpired, from a
\* device on which the user holds a session, while the SSO session was live
C39_Witness ==
    /\ last.op = "refresh" /\ ~last.ok /\ last.err = "InvalidSession"
    /\ last.tok.client_id = Nil /\ last.tok.device_id = Nil
    /\ redis.sso[last.tok.sub] # NoRec
    /\ \E c \in Apps : redis.session[_session_key(last.tok.sub, c, last.device)] # NoRec

\* C40: after a user has been soft-deleted (UserCommands.delete sets
\* deleted_at), every refresh_token and exchange_sso_token for that user
\* fails and issues no tokens, even though the user's application sessions
\* and SSO session remain in the cache; a failed refresh leaves the stored
\* refresh-token hash unchanged.
C40_SoftDeletedUserGetsNoTokens ==
    [][ (last.op = "none" /\ last'.op \in {"refresh", "exchange"}) =>
            LET u == IF last'.op = "refresh" THEN last'.tok.sub
                     ELSE SsoUserIn(redis, last'.sso_in, now)
            IN  (u # Nil /\ db.deleted[u]) =>
                    /\ ~last'.ok
                    /\ last'.at = NoTok /\ last'.rt = NoTok
                    /\ redis'.session = redis.session
                    /\ redis'.client_sessions = redis.client_sessions
                    /\ redis'.user_sessions = redis.user_sessions
                    /\ redis'.sso_token = redis.sso_token ]_vars

\* a refresh was refused for a soft-deleted user whose session, matching the
\* presented token, and whose SSO session are still in the cache
C40_Witness ==
    /\ last.op = "refresh" /\ ~last.ok /\ last.err = "UserNotFound"
    /\ db.deleted[last.tok.sub]
    /\ redis.sso[last.tok.sub] # NoRec
    /\ validate_refresh_token(redis, last.tok.sub, RefreshClient(last.tok),
                              last.device, last.tok)

====
